---- MODULE Spec2Model ----
(***************************************************************************)
(* Differential-testing orchestrator of solc-fuzz: the run() loop of the   *)
(* runner, the Fuzzer call planner it constructs once per iteration, the   *)
(* compile() dispatcher and the classification of per-backend outcomes     *)
(* into compilation failures and fuzzing failures (Spec); the session of   *)
(* main() around run(), with its time limit and its output stream          *)
(* (SpecSession, SpecSessionFair); the scratch files and close handlers   *)
(* of runEVM (SpecEVM); the draw of a random argument (SpecRandom); the    *)
(* EOF compile and the compiler-version cache of eof.ts (SpecEOF); and the *)
(* loop of the legacy command line (SpecLegacy).                           *)
(***************************************************************************)
EXTENDS Integers, Sequences, FiniteSets, TLC

(***************************************************************************)
(* Bounds of the model.                                                    *)
(***************************************************************************)
\* largest number of backend compilations in one call of run():
\* Len(versions) * numberOfTests
MaxWork == 3
\* width in bits of one ABI word of the encoded call (256 in the EVM)
WordBits == 3
\* largest width in bits of an integer type a value is drawn for (256 in
\* Solidity)
MaxBits == 5

(***************************************************************************)
(* Values.                                                                 *)
(***************************************************************************)
\* JavaScript's undefined, as an element of fuzzingResults
Undefined == [undefined |-> TRUE]

\* the backend identifiers a session can be configured with
VersionPool == {"0.8.26", "0.8.27", "eof"}

\* every configured order: the non-empty lists of distinct backends
VersionLists ==
    { vs \in UNION { [1..n -> VersionPool] : n \in 1..Cardinality(VersionPool) } :
        \A a, b \in DOMAIN vs : a # b => vs[a] # vs[b] }

\* semantic types of the target function's parameters
UInt1 == [kind |-> "int", signed |-> FALSE, nBits |-> 1]
BoolT == [kind |-> "bool", signed |-> FALSE, nBits |-> 0]

\* the IntType nodes: signed or unsigned, of a width in bits
IntTypes ==
    { [kind |-> "int", signed |-> s, nBits |-> n] : s \in BOOLEAN, n \in 1..MaxBits }

\* the parameter lists of the target function the model is run with
ParamSigs == { <<UInt1>>, <<BoolT>> }

testCallFunction == "f"

RECURSIVE Pow2(_)
Pow2(n) == IF n = 0 THEN 1 ELSE 2 * Pow2(n - 1)

\* crypto-random-bigint random(n): every n-bit value
random(n) == 0 .. (Pow2(n) - 1)

(***************************************************************************)
(* evmc.ts: what one VM invocation can yield.                              *)
(***************************************************************************)
RunStatuses == {"success", "revert", "out of gas"}

Storage5 == ("0x0" :> 5)
Storage7 == ("0x0" :> 7)
Log1 == [address |-> "0xaa", topics |-> <<"0x01">>, data |-> "0x"]

\* the (output, storage, logs) triples a VM run is observed with
RunData ==
    { [output |-> "", storage |-> Storage5, logs |-> << >>],
      [output |-> "", storage |-> Storage7, logs |-> << >>],
      [output |-> "2a", storage |-> Storage5, logs |-> << >>],
      [output |-> "", storage |-> Storage5, logs |-> <<Log1>>] }

\* what the VM process leaves behind when it closes: its exit code, the
\* state of the two dump files, the status and output markers on its
\* standard output, and the data of the run
DumpStates == {"json", "garbage", "missing"}

EvmProcesses ==
    { [code |-> 0, storageDump |-> "json", logsDump |-> "json",
       status |-> s, hasOutput |-> TRUE, data |-> d] : s \in RunStatuses, d \in RunData }
      \cup { [code |-> 0, storageDump |-> "json", logsDump |-> "json",
              status |-> "success", hasOutput |-> FALSE, data |-> d] : d \in RunData }
      \cup { [code |-> 0, storageDump |-> "json", logsDump |-> "json",
              status |-> "none", hasOutput |-> FALSE, data |-> d] : d \in RunData }
      \cup { [code |-> 0, storageDump |-> sd, logsDump |-> ld,
              status |-> "success", hasOutput |-> TRUE, data |-> d] :
                sd \in DumpStates, ld \in DumpStates, d \in RunData }
      \cup { [code |-> 1, storageDump |-> sd, logsDump |-> "missing",
              status |-> "none", hasOutput |-> FALSE, data |-> d] :
                sd \in {"json", "missing"}, d \in RunData }

\* a handler that goes on without the result-status marker
resultMarkerAssumed(p) == TRUE

\* stdout.match(RESULT_REGEX) !== null
resultMarker(p) == p.status # "none"

\* a close handler that resolves with an empty outcome on a nonzero code
runEVMAbsorbing(p) ==
    IF p.code = 0
    THEN IF p.storageDump # "json" \/ p.logsDump # "json"
         THEN [resolved |-> FALSE, value |-> "parse error"]
         ELSE IF ~resultMarker(p)
         THEN [resolved |-> FALSE, value |-> "stdout"]
         ELSE [resolved |-> TRUE,
               value |-> [result |-> [result |-> p.status,
                                      output |-> IF p.hasOutput THEN p.data.output ELSE ""],
                          storage |-> p.data.storage, logs |-> p.data.logs]]
    ELSE [resolved |-> TRUE,
          value |-> [result |-> [result |-> "revert", output |-> ""],
                     storage |-> p.data.storage, logs |-> << >>]]

\* the close handler of runEVM up to the settlement of the promise, for a
\* process p whose dump files are read in the states p.storageDump and
\* p.logsDump
runEVM(p) ==
    IF p.code = 0
    THEN IF p.storageDump # "json" \/ p.logsDump # "json"
         THEN [resolved |-> FALSE, value |-> "parse error"]
         ELSE IF ~resultMarker(p)
         THEN [resolved |-> FALSE, value |-> "stdout"]
         ELSE [resolved |-> TRUE,
               value |-> [result |-> [result |-> p.status,
                                      output |-> IF p.hasOutput THEN p.data.output ELSE ""],
                          storage |-> p.data.storage, logs |-> p.data.logs]]
    ELSE [resolved |-> FALSE, value |-> "stderr"]

(***************************************************************************)
(* compile.ts: the Result class and compile().                             *)
(***************************************************************************)
\* new Result(version, success, result, error); result is kept as the
\* bytecode the compiler output holds for the contract, if any
Result(version, success, bytecode, error) ==
    [version |-> version, success |-> success, bytecode |-> bytecode, error |-> error]

\* a text is the sequence of its lines; JavaScript's undefined is NoText
NoText == << >>

\* _compile(variantStr, version) settles: it resolves with a CompileResult
\* (of which the model keeps the contract's bytecode), or rejects with a
\* CompileFailedError (solc-typed-ast, a standard backend), with another
\* Error, or, for the EOF backend, with a plain string (nonzero exit code,
\* "Error:" on the standard error) or with the SyntaxError of JSON.parse
_compile(version) ==
    { [resolved |-> TRUE, bytecode |-> b] : b \in {"0x6080", "undefined"} }
      \cup (IF version = "eof"
            THEN { [resolved |-> FALSE, kind |-> "string", message |-> NoText,
                    errors |-> << >>],
                   [resolved |-> FALSE, kind |-> "SyntaxError",
                    message |-> <<"Unexpected token">>, errors |-> << >>] }
            ELSE { [resolved |-> FALSE, kind |-> "CompileFailedError",
                    message |-> <<"Compiler Errors">>, errors |-> <<"ParserError">>],
                   [resolved |-> FALSE, kind |-> "Error",
                    message |-> <<"spawn ENOENT">>, errors |-> << >>] })

\* the catch block of compile(): the error text of a rejected _compile
errorOf(e) ==
    IF e.kind = "CompileFailedError" THEN e.message \o e.errors ELSE e.message

\* what one call of compile() meets: write() throws, or _compile settles
causeOf(e) == IF e.resolved THEN "resolved" ELSE e.kind

\* a compile() that lets the rejection of _compile through
compileRethrowing(version) ==
    { IF e.resolved
      THEN [thrown |-> FALSE, cause |-> causeOf(e),
            value |-> Result(version, TRUE, e.bytecode, NoText)]
      ELSE [thrown |-> TRUE, cause |-> causeOf(e), reason |-> errorOf(e)] :
        e \in _compile(version) }
      \cup { [thrown |-> TRUE, cause |-> "write", reason |-> <<"write">>] }

\* compile(unit, version): write() is outside the try block and its
\* rejection is compile()'s; every settlement of _compile becomes a Result
compile(version) ==
    { IF e.resolved
      THEN [thrown |-> FALSE, cause |-> causeOf(e),
            value |-> Result(version, TRUE, e.bytecode, NoText)]
      ELSE [thrown |-> FALSE, cause |-> causeOf(e),
            value |-> Result(version, FALSE, "undefined", errorOf(e))] :
        e \in _compile(version) }
      \cup { [thrown |-> TRUE, cause |-> "write", reason |-> <<"write">>] }

\* Result.bytecode(contractName)
bytecode(cr) == cr.bytecode

(***************************************************************************)
(* fuzzer.ts: the Fuzzer.                                                  *)
(***************************************************************************)
\* generateRandomValue(typeNode): the values the draw can return, or
\* {"undefined"} for a type that is not an integer type
generateRandomValue(typeNode) ==
    IF typeNode.kind = "int"
    THEN IF typeNode.signed
         THEN { -v : v \in random(typeNode.nBits - 1) } \cup random(typeNode.nBits - 1)
         ELSE random(typeNode.nBits)
    ELSE {"undefined"}

\* a plan that takes 0 for a parameter no value could be drawn for
generateCallParametersSkipping(paramTypes) ==
    { ps \in [DOMAIN paramTypes -> -Pow2(WordBits) .. Pow2(WordBits)] :
        \A k \in DOMAIN paramTypes :
           IF paramTypes[k].kind = "int"
           THEN ps[k] \in generateRandomValue(paramTypes[k])
           ELSE ps[k] = 0 }

\* generateCallParameters(): one drawn value per declared parameter; the
\* assert throws when a value is undefined (no list is produced)
generateCallParameters(paramTypes) ==
    IF \E k \in DOMAIN paramTypes : paramTypes[k].kind # "int"
    THEN {}
    ELSE { ps \in [DOMAIN paramTypes -> -Pow2(WordBits) .. Pow2(WordBits)] :
             \A k \in DOMAIN paramTypes : ps[k] \in generateRandomValue(paramTypes[k]) }

\* web3 encodeFunctionCall: the selector followed by one two's-complement
\* word per argument
encodeFunctionCall(name, params) ==
    [selector |-> name,
     words |-> [k \in DOMAIN params |-> params[k] % Pow2(WordBits)]]

\* prepareFunctionCall()
prepareFunctionCall(params) == encodeFunctionCall(testCallFunction, params)

\* a fuzz() that encodes a call of its own instead of reusing the plan
fuzzInputFresh(fz) ==
    encodeFunctionCall(testCallFunction, [k \in DOMAIN fz.callParameters |-> 0])

\* the input fuzz() hands to runEVM
fuzzInput(fz) == fz.functionCall

\* a fuzz() that takes the two revisions the other way round
fuzzRevisionSwapped(version) == IF version = "eof" THEN 13 ELSE 14

\* the revision fuzz() hands to runEVM
fuzzRevision(version) == IF version = "eof" THEN 14 ELSE 13

\* the FuzzingResult fuzz() returns for a resolved run
fuzzResult(fz, runResult) ==
    [runResult |-> runResult,
     version |-> fz.version,
     encodedCall |-> fz.functionCall,
     callParameters |-> fz.callParameters,
     functionName |-> testCallFunction]

\* emptyFuzzingResult(version)
emptyFuzzingResult(fz, version) ==
    [runResult |-> [result |-> [result |-> "no-op", output |-> ""],
                    storage |-> << >>, logs |-> << >>],
     version |-> version,
     encodedCall |-> fz.functionCall,
     callParameters |-> fz.callParameters,
     functionName |-> testCallFunction]

NoFuzzer == [version |-> "none", callParameters |-> << >>,
             functionCall |-> encodeFunctionCall("none", << >>)]

(***************************************************************************)
(* State of one call of run().                                             *)
(***************************************************************************)
VARIABLES
    versions,            \* configured backends, in order
    numberOfTests,       \* iterations asked for
    saveVariants,        \* --save
    paramTypes,          \* parameter types of the target function
    pc,                  \* position of run(): iter, compile, fuzz, classify, returned, rejected
    i,                   \* loop counter of run()
    vIdx,                \* position in versions of the backend being processed
    variant,             \* identity of the variant of the current iteration
    fuzzer,              \* the Fuzzer of the current iteration
    compilationResults,  \* per-iteration list of compile Results
    fuzzingResults,      \* per-iteration list of FuzzingResult or Undefined
    baseIndex,           \* slot of baseResult in fuzzingResults, 0 when none was chosen
    compilationFailures, \* records returned by run()
    fuzzingFailures,     \* records returned by run()
    files,               \* variant files on disk
    slotOf,              \* history: backend position that pushed each slot of fuzzingResults
    plans,               \* history: number of call plans generated in the current iteration
    evmCalls,            \* history: the runEVM invocations of the current iteration
    compileLog,          \* history: what each compile() of the current iteration met
    rejection,           \* the reason run() rejected with, "none" before
    exitCode             \* exit code of the process, -1 while it runs

runVars == <<versions, numberOfTests, saveVariants, paramTypes, pc, i, vIdx, variant,
             fuzzer, compilationResults, fuzzingResults, baseIndex, compilationFailures,
             fuzzingFailures, files, slotOf, plans, evmCalls, compileLog, rejection,
             exitCode>>

(***************************************************************************)
(* State of main(): the session around the calls of run().                 *)
(***************************************************************************)
VARIABLES
    timeLimit,               \* config.timeLimit: << >> when undefined, else <<ms>>
    numTests,                \* config.numTests
    mpc,                     \* position of main(): loop, run, body, results, summary,
                             \* resolved, exited
    now,                     \* Date.now() - startTime
    lastStart,               \* history: the clock at the latest test of the while condition
                             \* that let an iteration start
    produced,                \* history: number of rows the iterations have pushed
    writtenAt,               \* history: the clock at the latest write to the stream
    inconsistentRows,        \* the rows run() has collected and not yet returned
    pending,                 \* the rows processResults has still to write
    resultsFile,             \* the lines written to results.json
    numberOfTestsPerformed,  \* counter of main()
    stdout,                  \* the lines printed by console.log
    killed,                  \* the process was killed from outside
    argv,                    \* what the command line and the seed files amount to
    stream,                  \* the write stream of results.json: unopened, open, closed
    seedsCompiled,           \* prepareSeedUnits has called the compiler
    cause                    \* history: what made the process exit

sessionVars == <<timeLimit, numTests, mpc, now, lastStart, produced, writtenAt,
                 inconsistentRows, pending, resultsFile, numberOfTestsPerformed, stdout,
                 killed, argv, stream, seedsCompiled, cause>>

(***************************************************************************)
(* State of runEVM: the scratch files and the close handlers.              *)
(***************************************************************************)
VARIABLES
    calls,        \* number of runEVM invocations made so far
    epc,          \* position of the caller: idle, spawned, awaiting, aborted
    proc,         \* what the VM process of the latest invocation does
    storageFile,  \* os.tmpdir()/storage.json: its state and the invocation that wrote it
    logsFile,     \* os.tmpdir()/logs.json: likewise
    storageRead,  \* the state in which the latest handler read storage.json
    handler,      \* position of the close handler of each invocation
    promise,      \* state of the promise of each invocation
    removed       \* history: the files each invocation's handler has removed

evmVars == <<calls, epc, proc, storageFile, logsFile, storageRead, handler, promise,
             removed>>

(***************************************************************************)
(* State of one draw of Fuzzer.generateRandomValue.                        *)
(***************************************************************************)
VARIABLES
    typeNode,     \* the type the value is drawn for
    drawn         \* << >> before the draw, then the one value drawn

fuzzVars == <<typeNode, drawn>>

(***************************************************************************)
(* State of eof.ts: the EOF compile with its temporary source file, and    *)
(* the compiler-version query with its cache.                              *)
(***************************************************************************)
VARIABLES
    tempFile,             \* os.tmpdir()/eof_temp.sol: missing or written
    cpc,                  \* position of compile(): idle, spawned, removed
    child,                \* what the compiler process of the latest compile() does
    compilePromise,       \* the promise of the latest compile()
    settleCount,          \* history: calls of resolve and reject on that promise
    compileCalls,         \* history: number of compile() calls made
    __compilerVersion__,  \* the cache: compiler path to version, or "undefined"
    vpc,                  \* position of version(): idle, spawned
    compilerPath,         \* the argument of the latest version()
    versionChild,         \* what the process of the latest version() does
    spawns,               \* history: processes spawned by version(), per path
    answers,              \* history: what each version() resolved with
    queries               \* history: number of version() calls made

eofVars == <<tempFile, cpc, child, compilePromise, settleCount, compileCalls,
             __compilerVersion__, vpc, compilerPath, versionChild, spawns, answers,
             queries>>

\* most compile() calls and most version() calls of one run
MaxEofCalls == 2
MaxQueries == 3

\* the compiler paths queried
CompilerPaths == {"solc-a", "solc-b"}

DEFAULT_COMPILER_VERSION == "0.8.27"

\* nothing has been compiled or queried
EofIdle ==
    /\ tempFile = "missing"
    /\ cpc = "idle"
    /\ child = [code |-> 0, stderrError |-> FALSE, stdout |-> "json"]
    /\ compilePromise = "pending"
    /\ settleCount = 0
    /\ compileCalls = 0
    /\ __compilerVersion__ = [q \in CompilerPaths |-> "undefined"]
    /\ vpc = "idle"
    /\ compilerPath = "solc-a"
    /\ versionChild = [code |-> 0, match |-> "none"]
    /\ spawns = [q \in CompilerPaths |-> 0]
    /\ answers = << >>
    /\ queries = 0

(***************************************************************************)
(* State of the legacy command line, bin/solc-fuzz.ts.                     *)
(***************************************************************************)
VARIABLES
    legacyVersions,       \* versions: the configured backends, in order
    legacyNumTests,       \* numTests
    testCallDefined,      \* --test-call-function was given
    lpc,                  \* position of main(): test, version, push, done
    testNo,               \* loop counter i of the loop over tests
    lv,                   \* position in versions of the for...of loop
    versionIndex,         \* versionIndex
    curResults,           \* curResults, each outcome with the backend it is of
    storagePerVersion,    \* storagePerVersion: by = 0 is undefined
    logsPerVersion,       \* logsPerVersion: by = 0 is undefined
    runResultPerVersion,  \* runResultPerVersion
    legacyResults,        \* results
    legacyStorages,       \* storages
    legacyLogs,           \* logs
    legacyRunResults,     \* runResults
    numSuccess,           \* numSuccess
    numCompileError,      \* numCompileError
    numCrash              \* numCrash

legacyVars == <<legacyVersions, legacyNumTests, testCallDefined, lpc, testNo, lv,
                versionIndex, curResults, storagePerVersion, logsPerVersion,
                runResultPerVersion, legacyResults, legacyStorages, legacyLogs,
                legacyRunResults, numSuccess, numCompileError, numCrash>>

\* the legacy command line is not running
LegacyIdle ==
    /\ legacyVersions = <<"0.8.27">>
    /\ legacyNumTests = 0
    /\ testCallDefined = FALSE
    /\ lpc = "done"
    /\ testNo = 0
    /\ lv = 0
    /\ versionIndex = 0
    /\ curResults = << >>
    /\ storagePerVersion = << >>
    /\ logsPerVersion = << >>
    /\ runResultPerVersion = << >>
    /\ legacyResults = << >>
    /\ legacyStorages = << >>
    /\ legacyLogs = << >>
    /\ legacyRunResults = << >>
    /\ numSuccess = 0
    /\ numCompileError = 0
    /\ numCrash = 0

outside == <<sessionVars, evmVars, fuzzVars, eofVars, legacyVars>>

\* most runEVM invocations of one run
MaxCalls == 2

\* a scratch file that is not on disk
NoFile == [state |-> "missing", by |-> 0]

\* no VM has been invoked yet
EvmIdle ==
    /\ calls = 0
    /\ epc = "idle"
    /\ proc = [code |-> 0]
    /\ storageFile = NoFile
    /\ logsFile = NoFile
    /\ storageRead = "missing"
    /\ handler = [k \in 1..MaxCalls |-> "unborn"]
    /\ promise = [k \in 1..MaxCalls |-> "pending"]
    /\ removed = [k \in 1..MaxCalls |-> {}]

vars == <<runVars, outside>>

config == <<versions, numberOfTests, saveVariants, paramTypes, outside>>

\* path.join(outputPath, `${baseFileName}.variant.${i}.sol`)
variantFileName(n) == n

\* exists(path)
exists(fs, name) == \E f \in fs : f.name = name

\* a saveVariant that writes whether or not the file exists
saveVariantOverwriting(fs, name, v, version) ==
    { f \in fs : f.name # name } \cup { [name |-> name, variant |-> v, version |-> version] }

\* saveVariant(variantFileName, variant, version): writes only a missing file
saveVariant(fs, name, v, version) ==
    IF exists(fs, name) THEN fs
    ELSE fs \cup { [name |-> name, variant |-> v, version |-> version] }

Init ==
    /\ versions \in VersionLists
    /\ numberOfTests \in 1..MaxWork
    /\ Len(versions) * numberOfTests <= MaxWork
    /\ saveVariants \in BOOLEAN
    /\ paramTypes \in ParamSigs
    /\ pc = "iter"
    /\ i = 0
    /\ vIdx = 0
    /\ variant = 0
    /\ compileLog = << >>
    /\ rejection = "none"
    /\ exitCode = -1
    /\ timeLimit = << >>
    /\ numTests = numberOfTests
    /\ mpc = "run"
    /\ now = 0
    /\ lastStart = 0
    /\ produced = 0
    /\ writtenAt = 0
    /\ inconsistentRows = << >>
    /\ pending = << >>
    /\ resultsFile = << >>
    /\ numberOfTestsPerformed = 0
    /\ stdout = << >>
    /\ killed = FALSE
    /\ argv = "ok"
    /\ stream = "open"
    /\ seedsCompiled = TRUE
    /\ cause = "none"
    /\ EvmIdle
    /\ EofIdle
    /\ LegacyIdle
    /\ typeNode = UInt1
    /\ drawn = << >>
    /\ fuzzer = NoFuzzer
    /\ compilationResults = << >>
    /\ fuzzingResults = << >>
    /\ baseIndex = 0
    /\ compilationFailures = << >>
    /\ fuzzingFailures = << >>
    /\ files = {}
    /\ slotOf = << >>
    /\ plans = 0
    /\ evmCalls = << >>

(***************************************************************************)
(* runner: classification of one iteration's outcomes.                     *)
(***************************************************************************)
\* a classification without the all-failed skip
everyFailedNever(crs) == FALSE

\* compilationResults.every((result) => !result.success)
everyFailed(crs) == \A k \in DOMAIN crs : ~crs[k].success

\* a loop over compilationResults that records every Result
compileFailuresOfAll(crs, file) ==
    [k \in DOMAIN crs |-> [file |-> file, result |-> crs[k]]]

\* the loop over compilationResults: one [file, result] per failed Result
RECURSIVE compileFailuresOf(_, _)
compileFailuresOf(crs, file) ==
    IF crs = << >> THEN << >>
    ELSE (IF ~Head(crs).success
          THEN << [file |-> file, result |-> Head(crs)] >>
          ELSE << >>) \o compileFailuresOf(Tail(crs), file)

\* result?.runResult.result.result
statusOf(fr) == IF fr = Undefined THEN "undefined" ELSE fr.runResult.result.result

\* new Set(fuzzingResults.map(...))
resultsSet(frs) == { statusOf(frs[k]) : k \in DOMAIN frs }

\* a base search that takes the first Run Outcome whatever its status
findBaseExecuted(frs) ==
    IF \E k \in DOMAIN frs : frs[k] # Undefined
    THEN CHOOSE k \in DOMAIN frs :
            /\ frs[k] # Undefined
            /\ \A j \in DOMAIN frs : frs[j] # Undefined => k <= j
    ELSE 0

\* a base search that keeps the last success instead of the first
findBaseLast(frs) ==
    IF \E k \in DOMAIN frs : statusOf(frs[k]) = "success"
    THEN CHOOSE k \in DOMAIN frs :
            /\ statusOf(frs[k]) = "success"
            /\ \A j \in DOMAIN frs : statusOf(frs[j]) = "success" => k >= j
    ELSE 0

\* fuzzingResults.find(status === "success"), as a slot; 0 when undefined
findBase(frs) ==
    IF \E k \in DOMAIN frs : statusOf(frs[k]) = "success"
    THEN CHOOSE k \in DOMAIN frs :
            /\ statusOf(frs[k]) = "success"
            /\ \A j \in DOMAIN frs : statusOf(frs[j]) = "success" => k <= j
    ELSE 0

\* deepEqual(a, b)
deepEqual(a, b) == a = b

\* a comparison that leaves the storage out
differsNoStorage(fr, base) ==
    \/ fr.runResult.result.output # base.runResult.result.output
    \/ ~deepEqual(fr.runResult.logs, base.runResult.logs)

\* the comparison of a FuzzingResult with the base output, storage and logs
differs(fr, base) ==
    \/ fr.runResult.result.output # base.runResult.result.output
    \/ ~deepEqual(fr.runResult.storage, base.runResult.storage)
    \/ ~deepEqual(fr.runResult.logs, base.runResult.logs)

\* the version handed to emptyFuzzingResult for the entry at a slot
missingVersion(vs, index) == vs[index]

\* one pass of the loop over fuzzingResults.entries(), from slot k on
RECURSIVE fuzzFailuresFrom(_, _, _, _, _, _)
fuzzFailuresFrom(k, frs, base, file, fz, vs) ==
    IF k > Len(frs) THEN << >>
    ELSE (IF frs[k] = Undefined
          THEN << [kind |-> "no-fuzzing", file |-> file, slot |-> k,
                   result |-> emptyFuzzingResult(fz, missingVersion(vs, k))] >>
          ELSE IF k = base
          THEN << >>
          ELSE IF differs(frs[k], frs[base])
          THEN << [kind |-> "output-mismatch", file |-> file, slot |-> k,
                   result |-> frs[k]] >>
          ELSE << >>) \o fuzzFailuresFrom(k + 1, frs, base, file, fz, vs)

\* whether the iteration goes on to compare run outcomes
compares(crs, frs) ==
    /\ ~everyFailed(crs)
    /\ Cardinality(resultsSet(frs)) # 1
    /\ findBase(frs) # 0

\* a classification that pushes its fuzzing records without saving the variant
forcedSavesNone(fs, recs, file, v, vs) == fs

\* the saveVariant calls of the classification when variants are not saved
RECURSIVE forcedSaves(_, _, _, _, _)
forcedSaves(fs, recs, file, v, vs) ==
    IF recs = << >> THEN fs
    ELSE forcedSaves(saveVariant(fs, file, v, vs[Head(recs).slot]), Tail(recs), file, v, vs)

(***************************************************************************)
(* runner: the steps of run().                                             *)
(***************************************************************************)
\* the loop head with i < numberOfTests: the variant is generated, saved when
\* asked for, and the Fuzzer is constructed
StartIteration ==
    /\ pc = "iter"
    /\ i < numberOfTests
    /\ variant' = variant + 1
    /\ files' = IF saveVariants
                THEN saveVariant(files, variantFileName(i), variant', versions[1])
                ELSE files
    /\ compilationResults' = << >>
    /\ fuzzingResults' = << >>
    /\ slotOf' = << >>
    /\ evmCalls' = << >>
    /\ compileLog' = << >>
    /\ baseIndex' = 0
    /\ IF generateCallParameters(paramTypes) = {}
       THEN /\ pc' = "rejected"
            /\ rejection' = "assert"
            /\ UNCHANGED <<fuzzer, plans, vIdx>>
       ELSE /\ rejection' = rejection
            /\ \E ps \in generateCallParameters(paramTypes) :
                 fuzzer' = [version |-> versions[1],
                            callParameters |-> ps,
                            functionCall |-> prepareFunctionCall(ps)]
            /\ plans' = 1
            /\ vIdx' = 1
            /\ pc' = "compile"
    /\ UNCHANGED <<config, i, compilationFailures, fuzzingFailures, exitCode>>

\* a loop over versions that goes from the first backend to the last one
NextVersionSkipping ==
    IF vIdx = Len(versions)
    THEN pc' = "classify" /\ vIdx' = vIdx
    ELSE pc' = "compile" /\ vIdx' = Len(versions)

\* the position after the body of the loop over versions
NextVersion ==
    IF vIdx = Len(versions)
    THEN pc' = "classify" /\ vIdx' = vIdx
    ELSE pc' = "compile" /\ vIdx' = vIdx + 1

\* await compile(variant, version), and the bytecode lookup that follows it
Compile ==
    /\ pc = "compile"
    /\ \E c \in compile(versions[vIdx]) :
         /\ compileLog' = Append(compileLog, c.cause)
         /\ IF c.thrown
            THEN /\ pc' = "rejected"
                 /\ rejection' = c.cause
                 /\ UNCHANGED <<vIdx, compilationResults, fuzzingResults, slotOf>>
            ELSE /\ compilationResults' = Append(compilationResults, c.value)
                 /\ rejection' = rejection
                 /\ IF ~c.value.success
                    THEN /\ NextVersion
                         /\ UNCHANGED <<fuzzingResults, slotOf>>
                    ELSE IF bytecode(c.value) = "undefined"
                    THEN /\ fuzzingResults' = Append(fuzzingResults, Undefined)
                         /\ slotOf' = Append(slotOf, vIdx)
                         /\ NextVersion
                    ELSE /\ pc' = "fuzz"
                         /\ UNCHANGED <<vIdx, fuzzingResults, slotOf>>
    /\ UNCHANGED <<config, i, variant, fuzzer, baseIndex, compilationFailures,
                   fuzzingFailures, files, plans, evmCalls, exitCode>>

\* await fuzzer.fuzz(bytecode, version)
Fuzz ==
    /\ pc = "fuzz"
    /\ \E p \in EvmProcesses :
         LET o == runEVM(p)
         IN /\ evmCalls' = Append(evmCalls, [backend |-> vIdx,
                                             input |-> fuzzInput(fuzzer),
                                             revision |-> fuzzRevision(versions[vIdx]),
                                             code |-> p.code,
                                             storageDump |-> p.storageDump,
                                             logsDump |-> p.logsDump,
                                             status |-> p.status,
                                             hasOutput |-> p.hasOutput])
            /\ IF o.resolved
               THEN /\ fuzzingResults' = Append(fuzzingResults, fuzzResult(fuzzer, o.value))
                    /\ slotOf' = Append(slotOf, vIdx)
                    /\ rejection' = rejection
                    /\ NextVersion
               ELSE /\ pc' = "rejected"
                    /\ rejection' = o.value
                    /\ UNCHANGED <<vIdx, fuzzingResults, slotOf>>
    /\ UNCHANGED <<config, i, variant, fuzzer, compilationResults, baseIndex,
                   compilationFailures, fuzzingFailures, files, plans, compileLog,
                   exitCode>>

\* the rest of the loop body: the classification of the iteration
Classify ==
    /\ pc = "classify"
    /\ LET file == variantFileName(i)
           skipAll == everyFailed(compilationResults)
           cfs == IF skipAll THEN << >> ELSE compileFailuresOf(compilationResults, file)
           cmp == compares(compilationResults, fuzzingResults)
           base == IF cmp THEN findBase(fuzzingResults) ELSE 0
           ffs == IF cmp
                  THEN fuzzFailuresFrom(1, fuzzingResults, base, file, fuzzer, versions)
                  ELSE << >>
           fs1 == IF ~saveVariants /\ cfs # << >>
                  THEN saveVariant(files, file, variant, versions[1])
                  ELSE files
           fs2 == IF ~saveVariants
                  THEN forcedSaves(fs1, ffs, file, variant, versions)
                  ELSE fs1
       IN /\ compilationFailures' = compilationFailures \o cfs
          /\ fuzzingFailures' = fuzzingFailures \o ffs
          /\ baseIndex' = base
          /\ files' = fs2
    /\ i' = i + 1
    /\ pc' = "iter"
    /\ UNCHANGED <<config, vIdx, variant, fuzzer, compilationResults, fuzzingResults,
                   slotOf, plans, evmCalls, compileLog, rejection, exitCode>>

\* the loop head with i = numberOfTests: run() resolves with the two lists
Return ==
    /\ pc = "iter"
    /\ i >= numberOfTests
    /\ pc' = "returned"
    /\ UNCHANGED <<config, i, vIdx, variant, fuzzer, compilationResults, fuzzingResults,
                   baseIndex, compilationFailures, fuzzingFailures, files, slotOf, plans,
                   evmCalls, compileLog, rejection, exitCode>>

\* exit code of main().then(...): the promise of main() resolved
ResolvedExitCode == 0
\* exit code of main().catch(...): the promise of main() rejected
RejectedExitCode == 1

\* a catch handler that exits as the then handler does
exitCodeOfQuiet(settled) == ResolvedExitCode

\* main().then(() => process.exit(0)).catch(e => { ...; process.exit(1) })
exitCodeOf(settled) ==
    IF settled = "rejected" THEN RejectedExitCode ELSE ResolvedExitCode

\* the promise of main() settles as run() did and the process exits
Exit ==
    /\ pc \in {"returned", "rejected"}
    /\ exitCode' = exitCodeOf(pc)
    /\ pc' = "exited"
    /\ UNCHANGED <<config, i, vIdx, variant, fuzzer, compilationResults, fuzzingResults,
                   baseIndex, compilationFailures, fuzzingFailures, files, slotOf, plans,
                   evmCalls, compileLog, rejection>>

Next == StartIteration \/ Compile \/ Fuzz \/ Classify \/ Return \/ Exit

Spec == Init /\ [][Next]_vars

(***************************************************************************)
(* main(): the session, with the pairwise runner it calls.  In time-limit  *)
(* mode run() is called once per turn of the while loop with              *)
(* numberOfTests = 1; in count mode it is called once with numTests.       *)
(***************************************************************************)
\* largest time limit and latest clock value of a session
MaxTime == 2
\* most iterations one session starts
MaxIters == 3

\* the variables of run() the session does not look into
runOnly == <<versions, numberOfTests, paramTypes, pc, vIdx, fuzzer, compilationResults,
             fuzzingResults, baseIndex, compilationFailures, fuzzingFailures, slotOf,
             plans, evmCalls, compileLog, rejection, evmVars, fuzzVars, eofVars, legacyVars>>

\* what the command line and the seed files can amount to: a session that
\* can start, --help or no seed argument, --test-eof without
\* --test-call-function, a rewrite file with a syntax error, no rewrite rule,
\* compiler settings that are not JSON, a rewrite file that cannot be read, a
\* seed file that does not compile
ArgvKinds == {"ok", "help", "eofNoFunction", "rewriteSyntax", "noRules", "badSettings",
              "rewritesUnreadable", "seedFails"}

\* the backends of a session
SessionVersions == { <<"0.8.27", "eof">>, <<"0.8.26", "0.8.27", "eof">> }

\* a prepareConfig that accepts an empty set of rewrite rules
prepareConfigLenient(args) ==
    IF args \in {"help", "eofNoFunction", "rewriteSyntax"} THEN "NoOpError"
    ELSE IF args \in {"badSettings", "rewritesUnreadable"} THEN "Error"
    ELSE "Config"

\* prepareConfig(): it throws a NoOpError, throws another Error, or returns
\* the Config
prepareConfig(args) ==
    IF args \in {"help", "eofNoFunction", "rewriteSyntax", "noRules"} THEN "NoOpError"
    ELSE IF args \in {"badSettings", "rewritesUnreadable"} THEN "Error"
    ELSE "Config"

\* prepareSeedUnits(): it throws when a seed does not compile
prepareSeedUnits(args) == IF args = "seedFails" THEN "Error" ELSE "SourceUnits"

SessionInit ==
    /\ timeLimit \in {<< >>} \cup { <<t>> : t \in 0..MaxTime }
    /\ numTests \in 0..MaxIters
    /\ saveVariants \in BOOLEAN
    /\ mpc = "config"
    /\ now = 0
    /\ lastStart = 0
    /\ produced = 0
    /\ writtenAt = 0
    /\ inconsistentRows = << >>
    /\ pending = << >>
    /\ resultsFile = << >>
    /\ numberOfTestsPerformed = 0
    /\ stdout = << >>
    /\ killed = FALSE
    /\ argv \in ArgvKinds
    /\ stream = "unopened"
    /\ seedsCompiled = FALSE
    /\ cause = "none"
    /\ EvmIdle
    /\ EofIdle
    /\ LegacyIdle
    /\ typeNode = UInt1
    /\ drawn = << >>
    /\ i = 0
    /\ variant = 0
    /\ files = {}
    /\ exitCode = -1
    /\ versions \in SessionVersions
    /\ numberOfTests = 1
    /\ paramTypes = <<UInt1>>
    /\ pc = "iter"
    /\ vIdx = 0
    /\ fuzzer = NoFuzzer
    /\ compilationResults = << >>
    /\ fuzzingResults = << >>
    /\ baseIndex = 0
    /\ compilationFailures = << >>
    /\ fuzzingFailures = << >>
    /\ slotOf = << >>
    /\ plans = 0
    /\ evmCalls = << >>
    /\ compileLog = << >>
    /\ rejection = "none"

\* the process runs: it was not killed and has not exited
Running == ~killed /\ mpc # "exited"

\* a loop of run() that admits the counter value numTests as well
testsPerRunInclusive == IF timeLimit = << >> THEN numTests + 1 ELSE 1

\* the numberOfTests main() hands to run()
testsPerRun == IF timeLimit = << >> THEN numTests ELSE 1

\* a loop condition that still admits the instant of the deadline
withinTimeLimitInclusive(t, limit) == t <= limit

\* the condition of the while loop: Date.now() - startTime < config.timeLimit
withinTimeLimit(t, limit) == t < limit

\* console.log(`Time limit of ${config.timeLimit}ms reached. Exiting...`)
timeLimitMessage(limit) == [text |-> "Time limit of ${T}ms reached. Exiting...", T |-> limit]

\* the three summary lines
summaryMessages(n) ==
    << [text |-> "Performed ${n} tests", n |-> n],
       [text |-> "Compilation failures encountered: ${n}"],
       [text |-> "Fuzzing failures encountered: ${n}"] >>

\* the results one backend can contribute to the row of a test: a failed
\* compilation, a compilation without bytecode, or a fuzzing result
PairResults ==
    { [isCompilation |-> TRUE, success |-> ok] : ok \in BOOLEAN }
      \cup { [isCompilation |-> FALSE, runResult |-> d] :
                d \in { r \in RunData : r.output = "" /\ r.logs = << >> } }

\* resultEq(r1, r2)
resultEq(r1, r2) ==
    IF r1.isCompilation /\ r2.isCompilation THEN r1.success = r2.success
    ELSE IF ~r1.isCompilation /\ ~r2.isCompilation
    THEN /\ r1.runResult.output = r2.runResult.output
         /\ deepEqual(r1.runResult.storage, r2.runResult.storage)
         /\ deepEqual(r1.runResult.logs, r2.runResult.logs)
    ELSE FALSE

\* the pairs (a, b) with a < b <= n in the order of the two nested loops,
\* from the pair (a, b) on
RECURSIVE pairsFrom(_, _, _)
pairsFrom(a, b, n) ==
    IF a >= n THEN << >>
    ELSE IF b > n THEN pairsFrom(a + 1, a + 2, n)
    ELSE << <<a, b>> >> \o pairsFrom(a, b + 1, n)

\* the pairs of results for which resultEq is false
differingPairs(results) ==
    SelectSeq(pairsFrom(1, 2, Len(results)),
              LAMBDA q : ~resultEq(results[q[1]], results[q[2]]))

\* the rows one iteration pushes: one per differing pair, each naming the
\* variant file of the loop counter and holding the whole list of results;
\* variant is the identity of the variant
rowsOf(results, file, v) ==
    [k \in DOMAIN differingPairs(results) |->
        [fileName |-> file, variant |-> v, pair |-> differingPairs(results)[k],
         nResults |-> Len(results)]]

\* config = await prepareConfig(): a NoOpError exits the process with code
\* 0, another Error rejects main(), whose catch handler exits
PrepareConfig ==
    /\ Running
    /\ mpc = "config"
    /\ IF prepareConfig(argv) = "NoOpError"
       THEN /\ exitCode' = ResolvedExitCode
            /\ cause' = "noop"
            /\ mpc' = "exited"
       ELSE IF prepareConfig(argv) = "Error"
       THEN /\ exitCode' = exitCodeOf("rejected")
            /\ cause' = "config"
            /\ mpc' = "exited"
       ELSE /\ mpc' = "seeds"
            /\ UNCHANGED <<exitCode, cause>>
    /\ UNCHANGED <<timeLimit, numTests, saveVariants, now, inconsistentRows, pending,
                   resultsFile, numberOfTestsPerformed, stdout, killed, i, variant, files,
                   runOnly, lastStart, produced, writtenAt, argv, stream, seedsCompiled>>

\* the seeds are compiled; then the clock is started, the output directory
\* prepared and the write stream of results.json opened
PrepareSeeds ==
    /\ Running
    /\ mpc = "seeds"
    /\ seedsCompiled' = TRUE
    /\ IF prepareSeedUnits(argv) = "Error"
       THEN /\ exitCode' = exitCodeOf("rejected")
            /\ cause' = "seeds"
            /\ mpc' = "exited"
            /\ stream' = stream
       ELSE /\ stream' = "open"
            /\ mpc' = IF timeLimit = << >> THEN "run" ELSE "loop"
            /\ UNCHANGED <<exitCode, cause>>
    /\ UNCHANGED <<timeLimit, numTests, saveVariants, now, inconsistentRows, pending,
                   resultsFile, numberOfTestsPerformed, stdout, killed, i, variant, files,
                   runOnly, lastStart, produced, writtenAt, argv>>

\* the while condition holds: run() is called
EnterRun ==
    /\ Running
    /\ mpc = "loop"
    /\ withinTimeLimit(now, timeLimit[1])
    /\ variant < MaxIters
    /\ lastStart' = now
    /\ mpc' = "run"
    /\ i' = 0
    /\ inconsistentRows' = << >>
    /\ UNCHANGED <<timeLimit, numTests, saveVariants, now, pending, resultsFile,
                   numberOfTestsPerformed, stdout, killed, variant, files, exitCode,
                   runOnly, produced, writtenAt, argv, stream, seedsCompiled, cause>>

\* the while condition fails: the message is printed and the process exits
TimeLimitReached ==
    /\ Running
    /\ mpc = "loop"
    /\ ~withinTimeLimit(now, timeLimit[1])
    /\ stdout' = Append(stdout, timeLimitMessage(timeLimit[1]))
    /\ exitCode' = ResolvedExitCode
    /\ cause' = "timeLimit"
    /\ mpc' = "exited"
    /\ UNCHANGED <<timeLimit, numTests, saveVariants, now, inconsistentRows, pending,
                   resultsFile, numberOfTestsPerformed, killed, i, variant, files, runOnly,
                   lastStart, produced, writtenAt, argv, stream, seedsCompiled>>

\* the loop of run() with i < numberOfTests: the variant is generated and,
\* when asked for, saved
IterationStart ==
    /\ Running
    /\ mpc = "run"
    /\ i < testsPerRun
    /\ variant' = variant + 1
    /\ files' = IF saveVariants
                THEN saveVariant(files, variantFileName(i), variant', versions[1])
                ELSE files
    /\ mpc' = "body"
    /\ UNCHANGED <<timeLimit, numTests, saveVariants, now, inconsistentRows, pending,
                   resultsFile, numberOfTestsPerformed, stdout, killed, i, exitCode,
                   runOnly, lastStart, produced, writtenAt, argv, stream, seedsCompiled,
                   cause>>

\* the rest of the loop body: every backend is compiled and executed and the
\* differing pairs are pushed
IterationEnd ==
    /\ Running
    /\ mpc = "body"
    /\ \E results \in [1..Len(versions) -> PairResults] :
         LET rows == rowsOf(results, variantFileName(i), variant)
         IN /\ inconsistentRows' = inconsistentRows \o rows
            /\ produced' = produced + Len(rows)
    /\ i' = i + 1
    /\ mpc' = "run"
    /\ UNCHANGED <<timeLimit, numTests, saveVariants, now, pending, resultsFile,
                   numberOfTestsPerformed, stdout, killed, variant, files, exitCode,
                   runOnly, lastStart, writtenAt, argv, stream, seedsCompiled, cause>>

\* an await of the loop body rejects: run() and main() reject, and the catch
\* handler exits
IterationRejects ==
    /\ Running
    /\ mpc = "body"
    /\ exitCode' = exitCodeOf("rejected")
    /\ cause' = "run"
    /\ mpc' = "exited"
    /\ UNCHANGED <<timeLimit, numTests, saveVariants, now, inconsistentRows, pending,
                   resultsFile, numberOfTestsPerformed, stdout, killed, i, variant, files,
                   runOnly, lastStart, produced, writtenAt, argv, stream, seedsCompiled>>

\* run() returns its rows to main(), which hands them to processResults
RunReturns ==
    /\ Running
    /\ mpc = "run"
    /\ i >= testsPerRun
    /\ pending' = inconsistentRows
    /\ inconsistentRows' = << >>
    /\ mpc' = "results"
    /\ UNCHANGED <<timeLimit, numTests, saveVariants, now, resultsFile,
                   numberOfTestsPerformed, stdout, killed, i, variant, files, exitCode,
                   runOnly, lastStart, produced, writtenAt, argv, stream, seedsCompiled,
                   cause>>

\* processResults: await writeToStream(outputStream, JSON.stringify(json) + "\n")
WriteRow ==
    /\ Running
    /\ mpc = "results"
    /\ pending # << >>
    /\ resultsFile' = Append(resultsFile, Head(pending))
    /\ pending' = Tail(pending)
    /\ writtenAt' = now
    /\ UNCHANGED <<timeLimit, numTests, saveVariants, mpc, now, inconsistentRows,
                   numberOfTestsPerformed, stdout, killed, i, variant, files, exitCode,
                   runOnly, lastStart, produced, argv, stream, seedsCompiled, cause>>

\* processResults returns and the counters of main() are updated
ResultsDone ==
    /\ Running
    /\ mpc = "results"
    /\ pending = << >>
    /\ numberOfTestsPerformed' = numberOfTestsPerformed + testsPerRun
    /\ mpc' = IF timeLimit = << >> THEN "summary" ELSE "loop"
    /\ UNCHANGED <<timeLimit, numTests, saveVariants, now, inconsistentRows, pending,
                   resultsFile, stdout, killed, i, variant, files, exitCode, runOnly,
                   lastStart, produced, writtenAt, argv, stream, seedsCompiled, cause>>

\* the summary lines; resultsFile.end() and resultsFile.close() are called
\* and main() resolves
Summary ==
    /\ Running
    /\ mpc = "summary"
    /\ stdout' = stdout \o summaryMessages(numberOfTestsPerformed)
    /\ stream' = "closed"
    /\ mpc' = "resolved"
    /\ UNCHANGED <<timeLimit, numTests, saveVariants, now, inconsistentRows, pending,
                   resultsFile, numberOfTestsPerformed, killed, i, variant, files,
                   exitCode, runOnly, lastStart, produced, writtenAt, argv, seedsCompiled,
                   cause>>

\* main().then(() => process.exit(0))
MainResolved ==
    /\ Running
    /\ mpc = "resolved"
    /\ exitCode' = exitCodeOf("returned")
    /\ cause' = "done"
    /\ mpc' = "exited"
    /\ UNCHANGED <<timeLimit, numTests, saveVariants, now, inconsistentRows, pending,
                   resultsFile, numberOfTestsPerformed, stdout, killed, i, variant, files,
                   runOnly, lastStart, produced, writtenAt, argv, stream, seedsCompiled>>

\* the wall clock advances
Tick ==
    /\ Running
    /\ mpc \notin {"config", "seeds"}
    /\ now < MaxTime
    /\ now' = now + 1
    /\ UNCHANGED <<timeLimit, numTests, saveVariants, mpc, inconsistentRows, pending,
                   resultsFile, numberOfTestsPerformed, stdout, killed, i, variant, files,
                   exitCode, runOnly, lastStart, produced, writtenAt, argv, stream,
                   seedsCompiled, cause>>

\* the process is killed from outside: what is on disk stays, the rest is lost
Kill ==
    /\ Running
    /\ killed' = TRUE
    /\ UNCHANGED <<timeLimit, numTests, saveVariants, mpc, now, inconsistentRows, pending,
                   resultsFile, numberOfTestsPerformed, stdout, i, variant, files,
                   exitCode, runOnly, lastStart, produced, writtenAt, argv, stream,
                   seedsCompiled, cause>>

SessionNext ==
    \/ PrepareConfig \/ PrepareSeeds
    \/ EnterRun \/ TimeLimitReached \/ IterationStart \/ IterationEnd
    \/ IterationRejects \/ RunReturns \/ WriteRow \/ ResultsDone \/ Summary
    \/ MainResolved \/ Tick \/ Kill

SpecSession == SessionInit /\ [][SessionNext]_vars

\* the steps of the program itself: control is sequential and every await is
\* of a file operation or of an external process, so a session whose
\* external processes terminate keeps taking its next step
SessionSteps ==
    \/ PrepareConfig \/ PrepareSeeds
    \/ EnterRun \/ TimeLimitReached \/ IterationStart \/ IterationEnd
    \/ IterationRejects \/ RunReturns \/ WriteRow \/ ResultsDone \/ Summary
    \/ MainResolved

SpecSessionFair == SessionInit /\ [][SessionNext]_vars /\ WF_vars(SessionSteps)

(***************************************************************************)
(* runEVM: the caller awaits the promise of each invocation; the close     *)
(* handler of an invocation reads the two scratch files, settles the       *)
(* promise and then removes the files.                                     *)
(***************************************************************************)
\* the VM processes of this specification: those of one fixed run
EvmRuns ==
    { p \in EvmProcesses :
        p.data.output = "" /\ p.data.storage = Storage5 /\ p.data.logs = << >> }

EVMInit ==
    /\ EvmIdle
    /\ EofIdle
    /\ LegacyIdle
    /\ timeLimit = << >>
    /\ numTests = 1
    /\ mpc = "run"
    /\ now = 0
    /\ lastStart = 0
    /\ produced = 0
    /\ writtenAt = 0
    /\ inconsistentRows = << >>
    /\ pending = << >>
    /\ resultsFile = << >>
    /\ numberOfTestsPerformed = 0
    /\ stdout = << >>
    /\ killed = FALSE
    /\ argv = "ok"
    /\ stream = "open"
    /\ seedsCompiled = TRUE
    /\ cause = "none"
    /\ typeNode = UInt1
    /\ drawn = << >>
    /\ versions = <<"0.8.27", "eof">>
    /\ numberOfTests = 1
    /\ saveVariants = FALSE
    /\ paramTypes = <<UInt1>>
    /\ pc = "fuzz"
    /\ i = 0
    /\ vIdx = 1
    /\ variant = 1
    /\ fuzzer = NoFuzzer
    /\ compilationResults = << >>
    /\ fuzzingResults = << >>
    /\ baseIndex = 0
    /\ compilationFailures = << >>
    /\ fuzzingFailures = << >>
    /\ files = {}
    /\ slotOf = << >>
    /\ plans = 1
    /\ evmCalls = << >>
    /\ compileLog = << >>
    /\ rejection = "none"
    /\ exitCode = -1

\* what the VM process leaves at a scratch path: a dump, or the file as it was
dumped(file, dump, k) ==
    IF dump = "missing" THEN file ELSE [state |-> dump, by |-> k]

\* spawn(EVMC_PATH, [...]): the caller starts the VM process of a new
\* invocation and awaits its promise
Spawn ==
    /\ epc = "idle"
    /\ calls < MaxCalls
    /\ calls' = calls + 1
    /\ proc' \in EvmRuns
    /\ epc' = "spawned"
    /\ UNCHANGED <<storageFile, logsFile, storageRead, handler, promise, removed,
                   runVars, sessionVars, fuzzVars, eofVars, legacyVars>>

\* the VM process writes its dump files and closes; the close handler runs
\* up to its first await
ProcessCloses ==
    /\ epc = "spawned"
    /\ storageFile' = dumped(storageFile, proc.storageDump, calls)
    /\ logsFile' = dumped(logsFile, proc.logsDump, calls)
    /\ IF proc.code = 0
       THEN /\ handler' = [handler EXCEPT ![calls] = "readStorage"]
            /\ promise' = promise
       ELSE /\ handler' = [handler EXCEPT ![calls] = "done"]
            /\ promise' = [promise EXCEPT ![calls] = "rejected"]
    /\ epc' = "awaiting"
    /\ UNCHANGED <<calls, proc, storageRead, removed, runVars, sessionVars, fuzzVars, eofVars, legacyVars>>

\* JSON.parse(await fs.readFile(storageTempFile, "utf8"))
ReadStorage ==
    /\ calls > 0
    /\ handler[calls] = "readStorage"
    /\ storageRead' = storageFile.state
    /\ IF storageFile.state = "json"
       THEN /\ handler' = [handler EXCEPT ![calls] = "readLogs"]
            /\ promise' = promise
       ELSE /\ handler' = [handler EXCEPT ![calls] = "done"]
            /\ promise' = [promise EXCEPT ![calls] = "rejected"]
    /\ UNCHANGED <<calls, epc, proc, storageFile, logsFile, removed, runVars,
                   sessionVars, fuzzVars, eofVars, legacyVars>>

\* JSON.parse(await fs.readFile(logsTempFile, "utf8")), the two markers, and
\* the settlement of the promise
ReadLogs ==
    /\ calls > 0
    /\ handler[calls] = "readLogs"
    /\ LET o == runEVM([proc EXCEPT !.storageDump = storageRead,
                                    !.logsDump = logsFile.state])
       IN IF o.resolved
          THEN /\ handler' = [handler EXCEPT ![calls] = "rmStorage"]
               /\ promise' = [promise EXCEPT ![calls] = "resolved"]
          ELSE /\ handler' = [handler EXCEPT ![calls] = "done"]
               /\ promise' = [promise EXCEPT ![calls] = "rejected"]
    /\ UNCHANGED <<calls, epc, proc, storageFile, logsFile, storageRead, removed,
                   runVars, sessionVars, fuzzVars, eofVars, legacyVars>>

\* await fs.rm(storageTempFile): a missing file makes fs.rm reject, which
\* ends the handler
RmStorage(k) ==
    /\ handler[k] = "rmStorage"
    /\ IF storageFile.state = "missing"
       THEN /\ handler' = [handler EXCEPT ![k] = "failed"]
            /\ UNCHANGED <<storageFile, removed>>
       ELSE /\ handler' = [handler EXCEPT ![k] = "rmLogs"]
            /\ storageFile' = NoFile
            /\ removed' = [removed EXCEPT ![k] = @ \cup { <<"storage", storageFile.by>> }]
    /\ UNCHANGED <<calls, epc, proc, logsFile, storageRead, promise, runVars,
                   sessionVars, fuzzVars, eofVars, legacyVars>>

\* await fs.rm(logsTempFile)
RmLogs(k) ==
    /\ handler[k] = "rmLogs"
    /\ IF logsFile.state = "missing"
       THEN /\ handler' = [handler EXCEPT ![k] = "failed"]
            /\ UNCHANGED <<logsFile, removed>>
       ELSE /\ handler' = [handler EXCEPT ![k] = "done"]
            /\ logsFile' = NoFile
            /\ removed' = [removed EXCEPT ![k] = @ \cup { <<"logs", logsFile.by>> }]
    /\ UNCHANGED <<calls, epc, proc, storageFile, storageRead, promise, runVars,
                   sessionVars, fuzzVars, eofVars, legacyVars>>

\* the awaited promise is settled: the caller goes on to the next backend,
\* or rejects as the promise did
Proceed ==
    /\ epc = "awaiting"
    /\ promise[calls] # "pending"
    /\ epc' = IF promise[calls] = "resolved" THEN "idle" ELSE "aborted"
    /\ UNCHANGED <<calls, proc, storageFile, logsFile, storageRead, handler, promise,
                   removed, runVars, sessionVars, fuzzVars, eofVars, legacyVars>>

EVMNext ==
    \/ Spawn \/ ProcessCloses \/ ReadStorage \/ ReadLogs \/ Proceed
    \/ \E k \in 1..MaxCalls : RmStorage(k) \/ RmLogs(k)

SpecEVM == EVMInit /\ [][EVMNext]_vars

(***************************************************************************)
(* fuzzer.ts: the draw of one random value (SpecRandom).                   *)
(***************************************************************************)
\* a type node is given and no value has been drawn for it; no run() is
\* under way
RandomInit ==
    /\ EvmIdle
    /\ EofIdle
    /\ LegacyIdle
    /\ timeLimit = << >>
    /\ numTests = 1
    /\ mpc = "run"
    /\ now = 0
    /\ lastStart = 0
    /\ produced = 0
    /\ writtenAt = 0
    /\ inconsistentRows = << >>
    /\ pending = << >>
    /\ resultsFile = << >>
    /\ numberOfTestsPerformed = 0
    /\ stdout = << >>
    /\ killed = FALSE
    /\ argv = "ok"
    /\ stream = "open"
    /\ seedsCompiled = TRUE
    /\ cause = "none"
    /\ typeNode \in IntTypes \cup {BoolT}
    /\ drawn = << >>
    /\ versions = <<"0.8.27", "eof">>
    /\ numberOfTests = 1
    /\ saveVariants = FALSE
    /\ paramTypes = <<UInt1>>
    /\ pc = "iter"
    /\ i = 0
    /\ vIdx = 0
    /\ variant = 0
    /\ fuzzer = NoFuzzer
    /\ compilationResults = << >>
    /\ fuzzingResults = << >>
    /\ baseIndex = 0
    /\ compilationFailures = << >>
    /\ fuzzingFailures = << >>
    /\ files = {}
    /\ slotOf = << >>
    /\ plans = 0
    /\ evmCalls = << >>
    /\ compileLog = << >>
    /\ rejection = "none"
    /\ exitCode = -1

\* value = this.generateRandomValue(typeNode)
Draw ==
    /\ drawn = << >>
    /\ \E v \in generateRandomValue(typeNode) : drawn' = <<v>>
    /\ UNCHANGED <<runVars, sessionVars, evmVars, typeNode, eofVars, legacyVars>>

RandomNext == Draw

SpecRandom == RandomInit /\ [][RandomNext]_vars

(***************************************************************************)
(* eof.ts: compile(sourceCode) and version(compilerPath) (SpecEOF).        *)
(***************************************************************************)
\* what the compiler process can do: its exit code, whether its standard
\* error contains "Error:", and its standard output: a JSON object, JSON
\* that is not an object (null), or no JSON
EofChildren ==
    [code : {0, 1}, stderrError : BOOLEAN, stdout : {"json", "null", "garbage"}]

\* the close handler of compile() after the removal of the temporary file:
\* how it settles the promise
settlementOf(c) ==
    IF c.code # 0 THEN [resolved |-> FALSE, kind |-> "string"]
    ELSE IF c.stderrError THEN [resolved |-> FALSE, kind |-> "string"]
    ELSE IF c.stdout = "json" THEN [resolved |-> TRUE, kind |-> "CompileResult"]
    ELSE IF c.stdout = "null" THEN [resolved |-> FALSE, kind |-> "TypeError"]
    ELSE [resolved |-> FALSE, kind |-> "SyntaxError"]

\* await fs.writeFile(tempFilePath, sourceCode); spawn("bash", [...]); the
\* promise is returned
EofCompile ==
    /\ cpc = "idle"
    /\ vpc = "idle"
    /\ compileCalls < MaxEofCalls
    /\ compileCalls' = compileCalls + 1
    /\ tempFile' = "written"
    /\ child' \in EofChildren
    /\ compilePromise' = "pending"
    /\ settleCount' = 0
    /\ cpc' = "spawned"
    /\ UNCHANGED <<__compilerVersion__, vpc, compilerPath, versionChild, spawns, answers,
                   queries, runVars, sessionVars, evmVars, fuzzVars,
                   legacyVars>>

\* a handler that removes the file only when the compiler exited with code 0
EofCloseOnSuccess ==
    /\ cpc = "spawned"
    /\ tempFile' = IF child.code = 0 THEN "missing" ELSE tempFile
    /\ cpc' = "removed"
    /\ UNCHANGED <<child, compilePromise, settleCount, compileCalls, __compilerVersion__,
                   vpc, compilerPath, versionChild, spawns, answers, queries, runVars,
                   sessionVars, evmVars, fuzzVars,
                   legacyVars>>

\* the compiler process closes: await fs.rm(tempFilePath)
EofClose ==
    /\ cpc = "spawned"
    /\ tempFile' = "missing"
    /\ cpc' = "removed"
    /\ UNCHANGED <<child, compilePromise, settleCount, compileCalls, __compilerVersion__,
                   vpc, compilerPath, versionChild, spawns, answers, queries, runVars,
                   sessionVars, evmVars, fuzzVars,
                   legacyVars>>

\* the rest of the close handler: the promise is resolved or rejected
EofSettle ==
    /\ cpc = "removed"
    /\ compilePromise' = IF settlementOf(child).resolved THEN "resolved" ELSE "rejected"
    /\ settleCount' = settleCount + 1
    /\ cpc' = "idle"
    /\ UNCHANGED <<tempFile, child, compileCalls, __compilerVersion__, vpc, compilerPath,
                   versionChild, spawns, answers, queries, runVars, sessionVars, evmVars,
                   fuzzVars,
                   legacyVars>>

\* what the process of version() can do: its exit code and the version its
\* standard output matches /Version:\s(\d+\.\d+\.\d+)/ with, if any
VersionChildren == [code : {0, 1}, match : {"0.8.26", "0.8.28", "none"}]

\* a query that never finds its path in the cache
cachedNever(cache, path) == FALSE

\* __compilerVersion__[compilerPath] !== undefined
cached(cache, path) == cache[path] # "undefined"

\* the close handler of version(): the value stored in the cache
versionOf(c) ==
    IF c.code # 0 THEN DEFAULT_COMPILER_VERSION
    ELSE IF c.match # "none" THEN c.match
    ELSE DEFAULT_COMPILER_VERSION

\* version(compilerPath): the cached value is returned, or the process is
\* spawned
VersionQuery(path) ==
    /\ vpc = "idle"
    /\ cpc = "idle"
    /\ queries < MaxQueries
    /\ queries' = queries + 1
    /\ compilerPath' = path
    /\ IF cached(__compilerVersion__, path)
       THEN /\ answers' = Append(answers, [path |-> path,
                                           value |-> __compilerVersion__[path],
                                           spawned |-> FALSE,
                                           child |-> versionChild])
            /\ UNCHANGED <<vpc, versionChild, spawns>>
       ELSE /\ versionChild' \in VersionChildren
            /\ spawns' = [spawns EXCEPT ![path] = @ + 1]
            /\ vpc' = "spawned"
            /\ answers' = answers
    /\ UNCHANGED <<tempFile, cpc, child, compilePromise, settleCount, compileCalls,
                   __compilerVersion__, runVars, sessionVars, evmVars, fuzzVars,
                   legacyVars>>

\* the process of version() closes: the cache is filled and the promise
\* resolved with the cached value
VersionCloses ==
    /\ vpc = "spawned"
    /\ __compilerVersion__' =
          [__compilerVersion__ EXCEPT ![compilerPath] = versionOf(versionChild)]
    /\ answers' = Append(answers, [path |-> compilerPath,
                                   value |-> versionOf(versionChild),
                                   spawned |-> TRUE,
                                   child |-> versionChild])
    /\ vpc' = "idle"
    /\ UNCHANGED <<tempFile, cpc, child, compilePromise, settleCount, compileCalls,
                   compilerPath, versionChild, spawns, queries, runVars, sessionVars,
                   evmVars, fuzzVars,
                   legacyVars>>

\* no run() is under way
EOFInit ==
    /\ EvmIdle
    /\ EofIdle
    /\ LegacyIdle
    /\ timeLimit = << >>
    /\ numTests = 1
    /\ mpc = "run"
    /\ now = 0
    /\ lastStart = 0
    /\ produced = 0
    /\ writtenAt = 0
    /\ inconsistentRows = << >>
    /\ pending = << >>
    /\ resultsFile = << >>
    /\ numberOfTestsPerformed = 0
    /\ stdout = << >>
    /\ killed = FALSE
    /\ argv = "ok"
    /\ stream = "open"
    /\ seedsCompiled = TRUE
    /\ cause = "none"
    /\ typeNode = UInt1
    /\ drawn = << >>
    /\ versions = <<"0.8.27", "eof">>
    /\ numberOfTests = 1
    /\ saveVariants = FALSE
    /\ paramTypes = <<UInt1>>
    /\ pc = "iter"
    /\ i = 0
    /\ vIdx = 0
    /\ variant = 0
    /\ fuzzer = NoFuzzer
    /\ compilationResults = << >>
    /\ fuzzingResults = << >>
    /\ baseIndex = 0
    /\ compilationFailures = << >>
    /\ fuzzingFailures = << >>
    /\ files = {}
    /\ slotOf = << >>
    /\ plans = 0
    /\ evmCalls = << >>
    /\ compileLog = << >>
    /\ rejection = "none"
    /\ exitCode = -1

EOFNext ==
    \/ EofCompile \/ EofClose \/ EofSettle
    \/ VersionCloses \/ \E path \in CompilerPaths : VersionQuery(path)

SpecEOF == EOFInit /\ [][EOFNext]_vars

(***************************************************************************)
(* bin/solc-fuzz.ts: the loop over tests and versions of the legacy        *)
(* command line (SpecLegacy).                                              *)
(***************************************************************************)
\* most tests of one legacy session
MaxLegacyTests == 1

\* the version lists a legacy session is run with
LegacyVersionLists == { <<"0.8.27", "eof">>, <<"0.8.26", "0.8.27", "eof">> }

\* what one turn of the loop over versions meets: compile() resolves or
\* rejects with a CompileFailedError or with another error; the selector of
\* the target function and the bytecode are found or not; runEVM resolves
\* with a run status or rejects
LegacyOutcomes ==
    { [compile |-> "CompileFailedError", selector |-> FALSE, run |-> "none"],
      [compile |-> "Error", selector |-> FALSE, run |-> "none"],
      [compile |-> "resolved", selector |-> FALSE, run |-> "none"] }
      \cup { [compile |-> "resolved", selector |-> TRUE, run |-> r] :
                r \in {"success", "revert", "rejected"} }

\* versions.map(() => undefined) and versions.map(() => "n/a")
perVersionUndefined(vs) == [k \in DOMAIN vs |-> [by |-> 0, value |-> "undefined"]]
perVersionNA(vs) == [k \in DOMAIN vs |-> [by |-> 0, value |-> "n/a"]]

\* array[versionIndex] = value, in an array indexed from 0
assignAt(array, index, entry) ==
    [k \in DOMAIN array |-> IF k = index + 1 THEN entry ELSE array[k]]

\* methodIdentifier !== undefined && bytecode !== undefined
extracted(o) == o.selector

\* no run() is under way
LegacyInit ==
    /\ EvmIdle
    /\ EofIdle
    /\ legacyVersions \in LegacyVersionLists
    /\ legacyNumTests \in 0..MaxLegacyTests
    /\ testCallDefined \in BOOLEAN
    /\ lpc = "test"
    /\ testNo = 0
    /\ lv = 0
    /\ versionIndex = 0
    /\ curResults = << >>
    /\ storagePerVersion = << >>
    /\ logsPerVersion = << >>
    /\ runResultPerVersion = << >>
    /\ legacyResults = << >>
    /\ legacyStorages = << >>
    /\ legacyLogs = << >>
    /\ legacyRunResults = << >>
    /\ numSuccess = 0
    /\ numCompileError = 0
    /\ numCrash = 0
    /\ timeLimit = << >>
    /\ numTests = 1
    /\ mpc = "run"
    /\ now = 0
    /\ lastStart = 0
    /\ produced = 0
    /\ writtenAt = 0
    /\ inconsistentRows = << >>
    /\ pending = << >>
    /\ resultsFile = << >>
    /\ numberOfTestsPerformed = 0
    /\ stdout = << >>
    /\ killed = FALSE
    /\ argv = "ok"
    /\ stream = "open"
    /\ seedsCompiled = TRUE
    /\ cause = "none"
    /\ typeNode = UInt1
    /\ drawn = << >>
    /\ versions = <<"0.8.27", "eof">>
    /\ numberOfTests = 1
    /\ saveVariants = FALSE
    /\ paramTypes = <<UInt1>>
    /\ pc = "iter"
    /\ i = 0
    /\ vIdx = 0
    /\ variant = 0
    /\ fuzzer = NoFuzzer
    /\ compilationResults = << >>
    /\ fuzzingResults = << >>
    /\ baseIndex = 0
    /\ compilationFailures = << >>
    /\ fuzzingFailures = << >>
    /\ files = {}
    /\ slotOf = << >>
    /\ plans = 0
    /\ evmCalls = << >>
    /\ compileLog = << >>
    /\ rejection = "none"
    /\ exitCode = -1

\* the loop over tests with i < numTests: the per-test arrays are created
LegacyTestStart ==
    /\ lpc = "test"
    /\ testNo < legacyNumTests
    /\ curResults' = << >>
    /\ storagePerVersion' = perVersionUndefined(legacyVersions)
    /\ logsPerVersion' = perVersionUndefined(legacyVersions)
    /\ runResultPerVersion' = perVersionNA(legacyVersions)
    /\ versionIndex' = 0
    /\ lv' = 1
    /\ lpc' = "version"
    /\ UNCHANGED <<legacyVersions, legacyNumTests, testCallDefined, testNo, legacyResults,
                   legacyStorages, legacyLogs, legacyRunResults, numSuccess,
                   numCompileError, numCrash, runVars, sessionVars, evmVars, fuzzVars,
                   eofVars>>

\* one turn of the loop over versions: the try block, its catch block and
\* the increment of versionIndex, which a continue in the try block skips
LegacyVersion ==
    /\ lpc = "version"
    /\ \E o \in LegacyOutcomes :
         /\ o.compile = "resolved" /\ ~testCallDefined => ~o.selector
         /\ IF o.compile = "CompileFailedError"
            THEN /\ curResults' = Append(curResults, [by |-> lv, value |-> "ERRORS"])
                 /\ numCompileError' = numCompileError + 1
                 /\ versionIndex' = versionIndex + 1
                 /\ UNCHANGED <<storagePerVersion, logsPerVersion, runResultPerVersion,
                                numSuccess, numCrash>>
            ELSE IF o.compile = "Error"
            THEN /\ curResults' = Append(curResults, [by |-> lv, value |-> "CRASH"])
                 /\ numCrash' = numCrash + 1
                 /\ versionIndex' = versionIndex + 1
                 /\ UNCHANGED <<storagePerVersion, logsPerVersion, runResultPerVersion,
                                numSuccess, numCompileError>>
            ELSE /\ numSuccess' = numSuccess + 1
                 /\ numCompileError' = numCompileError
                 /\ IF ~testCallDefined
                    THEN /\ curResults' = Append(curResults, [by |-> lv, value |-> "OK"])
                         /\ versionIndex' = versionIndex + 1
                         /\ UNCHANGED <<storagePerVersion, logsPerVersion,
                                        runResultPerVersion, numCrash>>
                    ELSE IF ~extracted(o)
                    THEN UNCHANGED <<curResults, versionIndex, storagePerVersion,
                                     logsPerVersion, runResultPerVersion, numCrash>>
                    ELSE IF o.run = "rejected"
                    THEN /\ curResults' = Append(curResults, [by |-> lv, value |-> "CRASH"])
                         /\ numCrash' = numCrash + 1
                         /\ versionIndex' = versionIndex + 1
                         /\ UNCHANGED <<storagePerVersion, logsPerVersion,
                                        runResultPerVersion>>
                    ELSE /\ storagePerVersion' =
                               assignAt(storagePerVersion, versionIndex,
                                        [by |-> lv, value |-> "storage"])
                         /\ logsPerVersion' =
                               assignAt(logsPerVersion, versionIndex,
                                        [by |-> lv, value |-> "logs"])
                         /\ runResultPerVersion' =
                               assignAt(runResultPerVersion, versionIndex,
                                        [by |-> lv, value |-> o.run])
                         /\ curResults' = Append(curResults, [by |-> lv, value |-> "OK"])
                         /\ versionIndex' = versionIndex + 1
                         /\ numCrash' = numCrash
    /\ IF lv = Len(legacyVersions)
       THEN lpc' = "push" /\ lv' = lv
       ELSE lpc' = "version" /\ lv' = lv + 1
    /\ UNCHANGED <<legacyVersions, legacyNumTests, testCallDefined, testNo, legacyResults,
                   legacyStorages, legacyLogs, legacyRunResults, runVars, sessionVars,
                   evmVars, fuzzVars, eofVars>>

\* the end of the loop body: the four rows of the test are pushed
LegacyTestEnd ==
    /\ lpc = "push"
    /\ legacyResults' = Append(legacyResults, curResults)
    /\ legacyStorages' = Append(legacyStorages, storagePerVersion)
    /\ legacyLogs' = Append(legacyLogs, logsPerVersion)
    /\ legacyRunResults' = Append(legacyRunResults, runResultPerVersion)
    /\ testNo' = testNo + 1
    /\ lpc' = "test"
    /\ UNCHANGED <<legacyVersions, legacyNumTests, testCallDefined, lv, versionIndex,
                   curResults, storagePerVersion, logsPerVersion, runResultPerVersion,
                   numSuccess, numCompileError, numCrash, runVars, sessionVars, evmVars,
                   fuzzVars, eofVars>>

\* the loop over tests ends: the tables are printed from the rows
LegacyReport ==
    /\ lpc = "test"
    /\ testNo >= legacyNumTests
    /\ lpc' = "done"
    /\ UNCHANGED <<legacyVersions, legacyNumTests, testCallDefined, testNo, lv,
                   versionIndex, curResults, storagePerVersion, logsPerVersion,
                   runResultPerVersion, legacyResults, legacyStorages, legacyLogs,
                   legacyRunResults, numSuccess, numCompileError, numCrash, runVars,
                   sessionVars, evmVars, fuzzVars, eofVars>>

LegacyNext == LegacyTestStart \/ LegacyVersion \/ LegacyTestEnd \/ LegacyReport

SpecLegacy == LegacyInit /\ [][LegacyNext]_vars

(***************************************************************************)
(* Vocabulary of the properties.                                           *)
(***************************************************************************)
\* the body of the loop has been run to its end for iteration i - 1, and the
\* per-iteration lists are still those of that iteration
Classified == pc \in {"iter", "returned"} /\ i > 0

\* the records the classified iteration added to the two lists
OfIteration(r) == r.file = variantFileName(i - 1)
iterCompilationFailures == SelectSeq(compilationFailures, OfIteration)
iterFuzzingFailures == SelectSeq(fuzzingFailures, OfIteration)

\* the slots of fuzzingResults that hold a Run Outcome
Executed == { k \in DOMAIN fuzzingResults : fuzzingResults[k] # Undefined }

\* the run statuses of the backends that produced a Run Outcome
ExecutedStatuses == { fuzzingResults[k].runResult.result.result : k \in Executed }

\* the records of one kind the classified iteration emitted for one slot
RecordsFor(kind, k) ==
    { n \in DOMAIN iterFuzzingFailures :
        iterFuzzingFailures[n].kind = kind /\ iterFuzzingFailures[n].slot = k }

\* the output-mismatch records of the classified iteration
Mismatches ==
    { n \in DOMAIN iterFuzzingFailures : iterFuzzingFailures[n].kind = "output-mismatch" }

(***************************************************************************)
(* Properties of the classification.                                       *)
(***************************************************************************)
\* C1: in every iteration the call plan is generated exactly once before any
\* backend is compiled or executed, every VM execution of the iteration gets
\* the encoding of that plan as input, and every fuzzing record of the
\* iteration carries the plan's parameter values.
C1_Fairness ==
    /\ (compilationResults # << >> \/ evmCalls # << >>) => plans = 1
    /\ pc \in {"compile", "fuzz", "classify"} => plans = 1
    /\ \A k \in DOMAIN evmCalls :
         evmCalls[k].input = encodeFunctionCall(testCallFunction, fuzzer.callParameters)
    /\ Classified =>
         \A n \in DOMAIN iterFuzzingFailures :
            /\ iterFuzzingFailures[n].result.callParameters = fuzzer.callParameters
            /\ iterFuzzingFailures[n].result.encodedCall =
                 encodeFunctionCall(testCallFunction, fuzzer.callParameters)

\* C1 witness: two backends were executed with a plan whose argument is not
\* zero and the iteration emitted a fuzzing record
C1_Witness ==
    /\ Classified
    /\ Len(evmCalls) >= 2
    /\ iterFuzzingFailures # << >>
    /\ fuzzer.callParameters = <<1>>

\* C2: when every backend failed to compile the variant, the iteration emits
\* no record of any kind.
C2_SkipCorrectness ==
    (Classified /\ \A k \in DOMAIN compilationResults : compilationResults[k].success = FALSE)
        => (iterCompilationFailures = << >> /\ iterFuzzingFailures = << >>)

\* C2 witness: an iteration of two or more backends in which all failed
C2_Witness ==
    /\ Classified
    /\ Len(compilationResults) >= 2
    /\ \A k \in DOMAIN compilationResults : ~compilationResults[k].success

\* C3 (as claimed): two backends compile and execute the same call and their
\* storage mappings differ: exactly one output-mismatch record is emitted and
\* it carries the divergent storage.
C3_StorageDivergence ==
    (/\ Classified
     /\ Len(versions) = 2
     /\ Executed = {1, 2}
     /\ fuzzingResults[1].runResult.storage # fuzzingResults[2].runResult.storage)
        => /\ Cardinality(Mismatches) = 1
           /\ \A n \in Mismatches :
                iterFuzzingFailures[n].result.runResult.storage
                    \in { fuzzingResults[1].runResult.storage,
                          fuzzingResults[2].runResult.storage }

\* C4: in an iteration where some backend compiled, each backend that failed
\* to compile has exactly one compile-mismatch record, carrying its own
\* Result, and a backend that compiled has none, whatever the comparison of
\* the run outcomes decided.
C4_CompileMismatch ==
    (Classified /\ \E k \in DOMAIN compilationResults : compilationResults[k].success)
        => /\ \A k \in DOMAIN compilationResults :
                Cardinality({ n \in DOMAIN iterCompilationFailures :
                                iterCompilationFailures[n].result.version = versions[k] })
                    = (IF compilationResults[k].success THEN 0 ELSE 1)
           /\ \A n \in DOMAIN iterCompilationFailures :
                \E k \in DOMAIN compilationResults :
                    /\ iterCompilationFailures[n].result = compilationResults[k]
                    /\ compilationResults[k].version = versions[k]
                    /\ ~compilationResults[k].success

\* C4 witness: one backend failed, another compiled, and the comparison of
\* run outcomes was skipped
C4_Witness ==
    /\ Classified
    /\ \E k \in DOMAIN compilationResults : compilationResults[k].success
    /\ Len(iterCompilationFailures) = 2
    /\ baseIndex = 0

\* C5 (as claimed): when the backends that produced a Run Outcome all have
\* the same run status, no output-mismatch record is produced, also when
\* another backend compiled without extractable bytecode.
C5_SameStatusNoMismatch ==
    (Classified /\ Cardinality(ExecutedStatuses) = 1) => Mismatches = {}

\* C6: when a comparison takes place the base is the Run Outcome of the first
\* backend in configured order whose status is success; without a success
\* status the iteration emits no fuzzing record.
C6_ComparisonDeterminism ==
    Classified =>
        /\ baseIndex # 0 =>
             /\ baseIndex \in Executed
             /\ fuzzingResults[baseIndex].runResult.result.result = "success"
             /\ \A k \in Executed :
                  (fuzzingResults[k].runResult.result.result = "success")
                      => slotOf[baseIndex] <= slotOf[k]
        /\ ("success" \notin ExecutedStatuses) => iterFuzzingFailures = << >>
        /\ iterFuzzingFailures # << >> => baseIndex # 0

\* C6 witness: the first executed backend reverted and two later ones
\* succeeded; the base is the earlier of the two
C6_Witness ==
    /\ Classified
    /\ Executed = {1, 2, 3}
    /\ fuzzingResults[1].runResult.result.result = "revert"
    /\ fuzzingResults[2].runResult.result.result = "success"
    /\ fuzzingResults[3].runResult.result.result = "success"
    /\ slotOf[baseIndex] = 2

\* C7: with a base and run statuses that are not all identical, every other
\* backend with a Run Outcome has exactly one output-mismatch record when its
\* return data, storage or logs differ from the base, none when all three
\* are equal, and the base has none.
C7_OutputMismatch ==
    (Classified /\ "success" \in ExecutedStatuses /\ Cardinality(ExecutedStatuses) > 1)
        => /\ baseIndex \in Executed
           /\ \A k \in Executed :
                LET fr == fuzzingResults[k].runResult
                    base == fuzzingResults[baseIndex].runResult
                    diff == \/ fr.result.output # base.result.output
                            \/ fr.storage # base.storage
                            \/ fr.logs # base.logs
                IN /\ Cardinality(RecordsFor("output-mismatch", k))
                        = (IF k # baseIndex /\ diff THEN 1 ELSE 0)
                   /\ \A n \in RecordsFor("output-mismatch", k) :
                        iterFuzzingFailures[n].result.runResult = fr

\* C7 witness: one backend differs from the base in its storage only and has
\* a record, another has a different status and equal data and has none
C7_Witness ==
    /\ Classified
    /\ baseIndex = 1
    /\ Executed = {1, 2, 3}
    /\ fuzzingResults[2].runResult.storage # fuzzingResults[1].runResult.storage
    /\ fuzzingResults[2].runResult.logs = fuzzingResults[1].runResult.logs
    /\ fuzzingResults[2].runResult.result.output = fuzzingResults[1].runResult.result.output
    /\ fuzzingResults[3].runResult.result.result = "revert"
    /\ fuzzingResults[3].runResult.storage = fuzzingResults[1].runResult.storage
    /\ fuzzingResults[3].runResult.logs = fuzzingResults[1].runResult.logs
    /\ fuzzingResults[3].runResult.result.output = fuzzingResults[1].runResult.result.output
    /\ Cardinality(Mismatches) = 1

\* C8 (as claimed): every backend that compiled without extractable bytecode
\* gets a no-fuzzing record with the no-op placeholder Run Outcome, whatever
\* the run statuses of the other backends are.
C8_MissingExecution ==
    Classified =>
        \A k \in DOMAIN fuzzingResults :
            fuzzingResults[k] = Undefined =>
                \E n \in RecordsFor("no-fuzzing", k) :
                    iterFuzzingFailures[n].result.runResult =
                        [result |-> [result |-> "no-op", output |-> ""],
                         storage |-> << >>, logs |-> << >>]

\* C9 (as claimed): each no-fuzzing record names the backend that compiled
\* without extractable bytecode, for every configured order, also when an
\* earlier backend failed to compile.
C9_MissingExecutionBackend ==
    Classified =>
        \A n \in DOMAIN iterFuzzingFailures :
            iterFuzzingFailures[n].kind = "no-fuzzing" =>
                iterFuzzingFailures[n].result.version
                    = versions[slotOf[iterFuzzingFailures[n].slot]]

\* C10 (as claimed): the backend identifier stored in an output-mismatch
\* record is the backend whose bytecode was executed to produce its Run
\* Outcome.
C10_MismatchBackend ==
    Classified =>
        \A n \in Mismatches :
            iterFuzzingFailures[n].result.version
                = versions[slotOf[iterFuzzingFailures[n].slot]]

\* C11: a compile-mismatch record is emitted only in an iteration where some
\* backend compiled, and a missing-execution or output-mismatch record only
\* in an iteration where some backend's Run Outcome has status success.
C11_SomeBackendSucceeded ==
    Classified =>
        /\ iterCompilationFailures # << >> =>
             \E k \in DOMAIN compilationResults : compilationResults[k].success
        /\ iterFuzzingFailures # << >> =>
             \E k \in Executed : fuzzingResults[k].runResult.result.result = "success"

\* C11 witness: an iteration that emitted a compile-mismatch record and a
\* no-fuzzing record next to a backend that ran with status success
C11_Witness ==
    /\ Classified
    /\ iterCompilationFailures # << >>
    /\ \E n \in DOMAIN iterFuzzingFailures : iterFuzzingFailures[n].kind = "no-fuzzing"
    /\ "success" \in ExecutedStatuses

\* C12: saveVariant writes the variant file only if no file exists at that
\* path: across every step of a session each existing variant file keeps its
\* content, and no path ever holds two files.
C12_IdempotentSave ==
    [][ /\ \A f \in files : f \in files'
        /\ \A f, g \in files' : f.name = g.name => f = g ]_vars

\* C12 witness: in time-limit mode with --save, the second call of run() has
\* called saveVariant for the path of index 0 with the second variant, and
\* the file still holds the first variant.
C12_Witness ==
    /\ saveVariants
    /\ timeLimit # << >>
    /\ mpc = "body"
    /\ variant = 2
    /\ files = { [name |-> variantFileName(0), variant |-> 1, version |-> versions[1]] }

\* main() is between two iterations: at the head of the while loop in
\* time-limit mode, at the head of the loop of run() in count mode
AtIterationBoundary ==
    \/ timeLimit # << >> /\ mpc = "loop"
    \/ timeLimit = << >> /\ mpc = "run"

\* C13: every iteration's records are written to the output stream before the
\* next iteration begins, in count mode and in time-limit mode: while an
\* iteration runs, no record of an earlier iteration is held in memory.
C13_WrittenBeforeNextIteration ==
    mpc = "body" => inconsistentRows = << >> /\ pending = << >>

\* C14: if the process is killed after N complete iterations, the output file
\* holds exactly N lines.
C14_CrashSafety ==
    killed /\ AtIterationBoundary => Len(resultsFile) = variant

\* the compile() calls that met a failure of the compiler
CompilerFailures == {"CompileFailedError", "Error", "string", "SyntaxError"}

\* C15: if the VM process exits with a nonzero code, runEVM rejects with the
\* standard-error text and run() rejects; no further backend is compiled or
\* executed, no further iteration starts, and the process exits with code 1.
C15_VMFailureAborts ==
    \A k \in DOMAIN evmCalls :
        evmCalls[k].code # 0 =>
            /\ k = Len(evmCalls)
            /\ Len(compileLog) = evmCalls[k].backend
            /\ pc \in {"rejected", "exited"}
            /\ rejection = "stderr"
            /\ pc = "exited" => exitCode = 1

\* C15 witness: the VM process of a backend that is not the last one exited
\* with a nonzero code, and the process has exited with code 1.
C15_Witness ==
    /\ pc = "exited"
    /\ exitCode = 1
    /\ \E k \in DOMAIN evmCalls :
         evmCalls[k].code # 0 /\ evmCalls[k].backend < Len(versions)

\* C16: compile() never throws on a compiler failure: the failure is recorded
\* as an outcome with success = false, run() never rejects for it, every
\* backend of the iteration is compiled, and every backend that compiled to
\* bytecode is executed.
C16_IndependentFailure ==
    /\ \A k \in DOMAIN compileLog :
         compileLog[k] \in CompilerFailures =>
            k \in DOMAIN compilationResults /\ ~compilationResults[k].success
    /\ rejection \notin CompilerFailures
    /\ Classified =>
         /\ Len(compilationResults) = Len(versions)
         /\ \A k \in DOMAIN compilationResults :
              compilationResults[k].success /\ bytecode(compilationResults[k]) # "undefined"
                 => \E c \in DOMAIN evmCalls : evmCalls[c].backend = k

\* C16 witness: the compiler failed for the first backend, and a later
\* backend of the same iteration was compiled and executed.
C16_Witness ==
    /\ Classified
    /\ compileLog[1] \in CompilerFailures
    /\ \E c \in DOMAIN evmCalls : evmCalls[c].backend > 1

\* C17: if the compiler of the EOF backend exits with code 0 and its output
\* cannot be parsed as JSON, the run aborts: no failed Compile Outcome is
\* recorded for that backend and no further backend is processed.
C17_UnparsableOutputFatal ==
    \A k \in DOMAIN compileLog :
        compileLog[k] = "SyntaxError" =>
            /\ pc \in {"rejected", "exited"}
            /\ Len(compilationResults) < k
            /\ Len(compileLog) = k

\* the close handler of invocation k has run to its end
Finished(k) == handler[k] \in {"done", "failed"}

\* C18: after runEVM has finished on any path, both scratch files have been
\* deleted by that invocation: no storage dump and no logs dump written by
\* it or before it is still on disk.
C18_ScratchFilesReleased ==
    \A k \in 1..calls :
        Finished(k) =>
            /\ storageFile.state = "missing" \/ storageFile.by > k
            /\ logsFile.state = "missing" \/ logsFile.by > k

\* C19: when the promise of runEVM resolves, the deletion of its two scratch
\* files has completed, and no invocation removes a dump file written by the
\* VM process of a later invocation.
C19_FullyAwaited ==
    \A k \in 1..calls :
        /\ promise[k] = "resolved" => Finished(k) /\ Cardinality(removed[k]) = 2
        /\ \A r \in removed[k] : r[2] <= k

Started == stream # "unopened"

\* the last n lines of the standard output
lastLines(n) == SubSeq(stdout, Len(stdout) - n + 1, Len(stdout))

\* C21: every session that completes normally, by exhausting the iteration
\* count or by reaching the time limit, prints as its final output the number
\* of iterations performed and the two failure counts.
C21_SummaryAlwaysPrinted ==
    Started /\ mpc = "exited" /\ exitCode = 0 =>
        /\ Len(stdout) >= 3
        /\ lastLines(3) = summaryMessages(variant)

\* C22: at the end of every run, in count mode and in time-limit mode, the
\* output stream has been ended and closed when the process exits.
C22_StreamClosedBeforeExit ==
    Started /\ mpc = "exited" => stream = "closed"

\* C23 as stated: in count mode the session executes exactly numTests
\* iterations before it terminates and reports that number.
C23_ExactlyNumTests ==
    timeLimit = << >> /\ Started /\ mpc = "exited" =>
        /\ variant = numTests
        /\ Len(stdout) >= 3
        /\ lastLines(3) = summaryMessages(variant)

\* C23 amended: in count mode a session whose steps all terminate never
\* starts more than numTests iterations and terminates; if no step of run()
\* rejects it has executed exactly numTests iterations, reports that number
\* and exits with code 0; if a step rejects it ends in that iteration with
\* code 1 and reports nothing.
C23_CountModeTerminates ==
    /\ [](timeLimit = << >> =>
            /\ variant <= numTests
            /\ Started /\ mpc = "exited" =>
                 IF exitCode = 0
                 THEN /\ variant = numTests
                      /\ numberOfTestsPerformed = variant
                      /\ stdout = summaryMessages(variant)
                 ELSE /\ exitCode = 1
                      /\ variant \in 1..numTests
                      /\ stdout = << >>)
    /\ (timeLimit = << >>) ~> (mpc = "exited" \/ killed)

\* C23 witness: a count-mode session of several tests has run them all,
\* reported their number and exited.
C23_Witness ==
    /\ timeLimit = << >>
    /\ mpc = "exited"
    /\ exitCode = 0
    /\ numTests > 1
    /\ variant = numTests
    /\ stdout = summaryMessages(numTests)

\* C24: the session exits with code 0 on normal completion, on help display
\* and on a no-op configuration error, and with code 1 on every other
\* uncaught failure.
C24_ExitCodes ==
    mpc = "exited" =>
        /\ exitCode \in {0, 1}
        /\ argv \in {"help", "noRules", "rewriteSyntax", "eofNoFunction"} => exitCode = 0
        /\ argv \in {"badSettings", "rewritesUnreadable", "seedFails"} => exitCode = 1
        /\ cause \in {"done", "timeLimit"} => exitCode = 0
        /\ cause = "run" => exitCode = 1

\* C24 witness: compiler settings that are not JSON made the process exit
\* with code 1 before the session started.
C24_Witness ==
    /\ mpc = "exited"
    /\ argv = "badSettings"
    /\ exitCode = 1
    /\ ~Started

\* C25: with an empty set of rewrite rules the session ends before any
\* iteration starts: no seed is compiled, no output file is opened, no
\* variant is generated or saved and no backend is invoked.
C25_EmptyRulesEndSession ==
    argv = "noRules" =>
        /\ mpc \in {"config", "exited"}
        /\ ~seedsCompiled
        /\ ~Started
        /\ variant = 0
        /\ files = {}
        /\ produced = 0

\* C25 witness: a session without rewrite rules has exited.
C25_Witness ==
    /\ argv = "noRules"
    /\ mpc = "exited"
    /\ exitCode = 0
    /\ ~seedsCompiled

\* C30: with the pairwise runner, for each test exactly one JSON object is
\* written to results.json, listing the result of every configured version,
\* for any number of versions.
C30_OneObjectPerTest ==
    \A a, b \in DOMAIN resultsFile :
        /\ resultsFile[a].nResults = Len(versions)
        /\ resultsFile[a].variant = resultsFile[b].variant => a = b

\* the range of values stated for an integer type of N bits: [0, 2^N) when
\* unsigned, [-(2^(N-1)), 2^(N-1)) when signed
statedRange(t) ==
    IF t.signed
    THEN -Pow2(t.nBits - 1) .. (Pow2(t.nBits - 1) - 1)
    ELSE 0 .. (Pow2(t.nBits) - 1)

\* C26: the value drawn for an unsigned N-bit integer parameter lies in
\* [0, 2^N) and for a signed one in [-(2^(N-1)), 2^(N-1)), and every value of
\* that range, the minimum -(2^(N-1)) included, is a possible result of the
\* draw.
C26_RandomRange ==
    typeNode.kind = "int" /\ drawn # << >> =>
        /\ drawn[1] \in statedRange(typeNode)
        /\ \A v \in statedRange(typeNode) : v \in generateRandomValue(typeNode)

\* the target function has a parameter that is not of an integer type
NonIntegerParameter == \E k \in DOMAIN paramTypes : paramTypes[k].kind # "int"

\* C27: with a non-integer parameter the construction of the call plan throws
\* in the first iteration before any backend is compiled or executed: run()
\* rejects, no record is emitted and the process exits with code 1.
C27_UnsupportedParameterAborts ==
    NonIntegerParameter /\ variant > 0 =>
        /\ pc \in {"rejected", "exited"}
        /\ rejection = "assert"
        /\ variant = 1
        /\ i = 0
        /\ compileLog = << >>
        /\ compilationResults = << >>
        /\ evmCalls = << >>
        /\ compilationFailures = << >>
        /\ fuzzingFailures = << >>
        /\ pc = "exited" => exitCode = 1

\* C27 witness: the run over a function with a bool parameter has aborted
\* and the process has exited with code 1.
C27_Witness ==
    /\ NonIntegerParameter
    /\ pc = "exited"
    /\ rejection = "assert"
    /\ exitCode = 1

\* C28: every execution of the backend "eof" is at revision 14 and every
\* execution of another backend at revision 13, whatever backend the call
\* plan was built for.
C28_RevisionOfBackend ==
    \A k \in DOMAIN evmCalls :
        evmCalls[k].revision = IF versions[evmCalls[k].backend] = "eof" THEN 14 ELSE 13

\* C28 witness: with a plan built for a standard backend, that backend was
\* executed at revision 13 and "eof" at revision 14 in the same iteration.
C28_Witness ==
    /\ fuzzer.version \notin {"eof", "none"}
    /\ \E k \in DOMAIN evmCalls :
          versions[evmCalls[k].backend] = "eof" /\ evmCalls[k].revision = 14
    /\ \E k \in DOMAIN evmCalls :
          versions[evmCalls[k].backend] = fuzzer.version /\ evmCalls[k].revision = 13

\* a text that is present and has a character
NonemptyText(t) == t # NoText /\ t # <<"">>

\* C29: every failed compile Result carries a nonempty diagnostic text, for
\* the standard backends and for "eof" alike, and every compile-failure
\* record has a nonempty error and the identifier of the failing backend.
C29_FailedResultHasError ==
    /\ \A k \in DOMAIN compilationResults :
          ~compilationResults[k].success =>
              /\ NonemptyText(compilationResults[k].error)
              /\ compilationResults[k].version = versions[k]
    /\ \A k \in DOMAIN compilationFailures :
          /\ NonemptyText(compilationFailures[k].result.error)
          /\ \E a \in DOMAIN versions :
                compilationFailures[k].result.version = versions[a]

\* the records of the session: those written to results.json, those handed
\* to processResults and those the running run() has collected
sessionRecords == resultsFile \o pending \o inconsistentRows

\* C31: the variant file named by a record of the session holds the source
\* text of the variant that produced the record, and two iterations of one
\* session never share a variant file name.
C31_RecordNamesItsVariant ==
    \A a \in DOMAIN sessionRecords :
        /\ \A f \in files :
              f.name = sessionRecords[a].fileName => f.variant = sessionRecords[a].variant
        /\ \A b \in DOMAIN sessionRecords :
              sessionRecords[a].fileName = sessionRecords[b].fileName
                  => sessionRecords[a].variant = sessionRecords[b].variant

\* C32: when the classified iteration emitted a record, a file exists at the
\* record's variant path, whether or not saving was requested; when saving
\* was not requested and the iteration emitted no record, it created no
\* variant file.
C32_RecordHasVariantFile ==
    Classified =>
        /\ (iterCompilationFailures # << >> \/ iterFuzzingFailures # << >>)
              => exists(files, variantFileName(i - 1))
        /\ (~saveVariants /\ iterCompilationFailures = << >> /\ iterFuzzingFailures = << >>)
              => ~exists(files, variantFileName(i - 1))

\* C32 witness: without --save an iteration emitted fuzzing records only and
\* its variant file is on disk.
C32_Witness ==
    /\ Classified
    /\ ~saveVariants
    /\ iterCompilationFailures = << >>
    /\ iterFuzzingFailures # << >>
    /\ exists(files, variantFileName(i - 1))

\* C33: when the backends that executed in the classified iteration do not
\* all have the same run status and one of them has status success, the
\* iteration emitted at least one fuzzing record.
C33_StatusDivergenceReported ==
    Classified /\ Cardinality(ExecutedStatuses) > 1 /\ "success" \in ExecutedStatuses
        => iterFuzzingFailures # << >>

\* the backend identifiers the records of the classified iteration carry
recordedVersions ==
    [k \in DOMAIN iterCompilationFailures |-> iterCompilationFailures[k].result.version]
      \o [k \in DOMAIN iterFuzzingFailures |-> iterFuzzingFailures[k].result.version]

\* C34: the classified iteration emitted at most one record per configured
\* backend, of one kind only, and at most (number of backends - 1) records in
\* total.
C34_OneRecordPerBackend ==
    Classified =>
        /\ Len(recordedVersions) <= Len(versions) - 1
        /\ \A a, b \in DOMAIN recordedVersions :
              recordedVersions[a] = recordedVersions[b] => a = b

\* the slots of fuzzingResults filled by the execution of the backend at
\* position b
OutcomeSlots(b) ==
    { s \in DOMAIN slotOf : slotOf[s] = b /\ fuzzingResults[s] # Undefined }

\* C35: a VM invocation that exited with code 0 resolves exactly when both
\* dump files were read as JSON and the result-status marker was on the
\* standard output; otherwise it rejects, and run() with it; a missing
\* return-data marker does not reject and gives an empty return data.
C35_ResolvesOnMarkerAndDumps ==
    \A k \in DOMAIN evmCalls :
        evmCalls[k].code = 0 =>
            /\ OutcomeSlots(evmCalls[k].backend) # {}
                  <=> /\ evmCalls[k].storageDump = "json"
                      /\ evmCalls[k].logsDump = "json"
                      /\ evmCalls[k].status # "none"
            /\ OutcomeSlots(evmCalls[k].backend) = {}
                  => /\ k = Len(evmCalls)
                     /\ pc \in {"rejected", "exited"}
                     /\ rejection \in {"parse error", "stdout"}
            /\ ~evmCalls[k].hasOutput
                  => \A s \in OutcomeSlots(evmCalls[k].backend) :
                        fuzzingResults[s].runResult.result.output = ""

\* C35 witness: an invocation whose standard output had the result-status
\* marker and no return-data marker resolved with an empty return data, and
\* a later one without the result-status marker rejected.
C35_Witness ==
    /\ \E k \in DOMAIN evmCalls :
          /\ evmCalls[k].code = 0
          /\ evmCalls[k].status = "success"
          /\ ~evmCalls[k].hasOutput
          /\ \E s \in OutcomeSlots(evmCalls[k].backend) :
                fuzzingResults[s].runResult.result.output = ""
    /\ \E k \in DOMAIN evmCalls :
          /\ evmCalls[k].code = 0
          /\ evmCalls[k].status = "none"
          /\ OutcomeSlots(evmCalls[k].backend) = {}
    /\ rejection = "stdout"

\* the backend at position b has been dealt with: its compile has settled
\* and, if it produced bytecode, so has its VM execution
Settled(b) ==
    /\ b <= Len(compileLog)
    /\ b <= Len(compilationResults)
    /\ (compilationResults[b].success /\ bytecode(compilationResults[b]) # "undefined")
          => \E k \in DOMAIN evmCalls : evmCalls[k].backend = b

\* C36: backends are processed in configured order and one at a time: while
\* the compile of a backend is awaited every earlier backend's compile and
\* execution have settled and no later backend has been started, and a VM
\* runs only for the backend whose compile was the last to settle.
C36_OneBackendAtATime ==
    /\ pc = "compile" =>
          /\ Len(compileLog) = vIdx - 1
          /\ \A b \in 1..(vIdx - 1) : Settled(b)
    /\ pc = "fuzz" =>
          /\ Len(compileLog) = vIdx
          /\ \A b \in 1..(vIdx - 1) : Settled(b)
          /\ \A k \in DOMAIN evmCalls : evmCalls[k].backend < vIdx
    /\ \A k \in DOMAIN compilationResults : compilationResults[k].version = versions[k]
    /\ \A k \in DOMAIN evmCalls :
          /\ evmCalls[k].backend <= Len(compileLog)
          /\ \A j \in DOMAIN evmCalls : j < k => evmCalls[j].backend < evmCalls[k].backend

\* C36 witness: the compile of the third backend is awaited after the first
\* two backends were compiled and executed, in that order.
C36_Witness ==
    /\ pc = "compile"
    /\ vIdx = 3
    /\ compileLog = <<"resolved", "resolved">>
    /\ Len(evmCalls) = 2
    /\ evmCalls[1].backend = 1
    /\ evmCalls[2].backend = 2

\* C37: on every exit path of the compiler process (nonzero exit code, error
\* text on the standard error, unparsable output, success) the EOF compile
\* has removed its temporary file by the time its promise settles, and the
\* promise settles exactly once.
C37_TempFileRemovedSettledOnce ==
    /\ settleCount <= 1
    /\ compilePromise # "pending" => settleCount = 1 /\ tempFile = "missing"
    /\ (cpc = "idle" /\ compileCalls > 0) =>
          /\ tempFile = "missing"
          /\ settleCount = 1
          /\ compilePromise = IF settlementOf(child).resolved THEN "resolved" ELSE "rejected"
          /\ compilePromise = "resolved"
                <=> child.code = 0 /\ ~child.stderrError /\ child.stdout = "json"

\* C37 witness: a compile whose compiler exited with a nonzero code has
\* rejected, once, and its temporary file is gone.
C37_Witness ==
    /\ cpc = "idle"
    /\ compileCalls > 0
    /\ child.code # 0
    /\ compilePromise = "rejected"
    /\ settleCount = 1
    /\ tempFile = "missing"

\* the answers of version() for one compiler path, in order
answersFor(path) == SelectSeq(answers, LAMBDA a : a.path = path)

\* C38: the version query always resolves, with the version its process
\* printed or with the default 0.8.27 when the process exits nonzero or
\* prints no match; after the first resolution for a path every later query
\* for that path returns the same value and spawns no process.
C38_VersionCached ==
    /\ Len(answers) + (IF vpc = "spawned" THEN 1 ELSE 0) = queries
    /\ \A path \in CompilerPaths :
          /\ spawns[path] <= 1
          /\ \A k \in DOMAIN answersFor(path) :
                /\ answersFor(path)[k].value = answersFor(path)[1].value
                /\ answersFor(path)[k].spawned <=> k = 1
          /\ answersFor(path) # << >> =>
                LET first == answersFor(path)[1]
                IN first.value =
                      IF first.child.code = 0 /\ first.child.match # "none"
                      THEN first.child.match
                      ELSE "0.8.27"

\* C38 witness: a path whose process exited nonzero was answered with the
\* default and answered again from the cache, and another path was answered
\* with the version its process printed.
C38_Witness ==
    /\ \E path \in CompilerPaths :
          /\ Len(answersFor(path)) = 2
          /\ answersFor(path)[1].child.code # 0
          /\ answersFor(path)[2].value = "0.8.27"
          /\ ~answersFor(path)[2].spawned
          /\ spawns[path] = 1
    /\ \E path \in CompilerPaths :
          /\ Len(answersFor(path)) = 1
          /\ answersFor(path)[1].value = "0.8.28"

\* C39: in the legacy command line every test's row of compilation results
\* holds exactly one outcome (OK, ERRORS or CRASH) per configured version, in
\* configured order, and the storage, log and run-status entries stored at
\* index k belong to version k, also when the selector of the target function
\* is not found for some version.
C39_LegacyRowsAligned ==
    \A t \in DOMAIN legacyResults :
        /\ Len(legacyResults[t]) = Len(legacyVersions)
        /\ \A k \in DOMAIN legacyResults[t] :
              /\ legacyResults[t][k].by = k
              /\ legacyResults[t][k].value \in {"OK", "ERRORS", "CRASH"}
        /\ \A k \in DOMAIN legacyVersions :
              /\ legacyStorages[t][k].by \in {0, k}
              /\ legacyLogs[t][k].by \in {0, k}
              /\ legacyRunResults[t][k].by \in {0, k}
====
